---- MODULE Spec2Model ----
(***************************************************************************)
(* Tieto: flat-file, vector-based semantic retrieval (class Tieto,         *)
(* src/src/serve.ts lines 556-922, the two-stage cosine / Euclidean        *)
(* variant).  The model follows one engine instance through search and     *)
(* query calls over a chunk store of JSONL files.                          *)
(*                                                                         *)
(* Numbers.  Embedding components are small integers and every vector of   *)
(* the model has an integral Euclidean norm, so Math.hypot, the dot        *)
(* product and the product of the norms are exact in IEEE doubles and the  *)
(* only rounded step of cosineSimilarity is one correctly rounded          *)
(* division.  A score is therefore kept as the exact fraction num/den      *)
(* (den = 0 is the NaN that 0/0 produces); a distance is kept as the       *)
(* integer under the square root.  Thresholds are kept in hundredths       *)
(* (0.4 is 40, 0.8 is 80).                                                 *)
(***************************************************************************)
EXTENDS Integers, Sequences, FiniteSets, TLC

\* ------------------------------------------------------------------ bounds
\* Largest number of chunk-store files in a topic directory.
MaxFiles == 2
\* Largest value of config.maxResults that is explored.
MaxResultsCap == 2
\* the longest filter expression enumerated character by character
MaxExprLen == 4
\* the most ingest calls one run makes
MaxIngests == 2
\* the most embedding requests one ingest call is followed through
MaxEmbeds == 4

\* ----------------------------------------------------------------- vectors
RECURSIVE DotN(_, _, _)
\* a.reduce((s, ai, i) => s + ai * b[i], 0), for equal lengths
DotN(a, b, n) == IF n = 0 THEN 0 ELSE DotN(a, b, n - 1) + a[n] * b[n]

RECURSIVE SumSqDiffN(_, _, _)
\* a.reduce((sum, ai, i) => sum + (ai - b[i]) * (ai - b[i]), 0)
SumSqDiffN(a, b, n) ==
    IF n = 0 THEN 0
    ELSE SumSqDiffN(a, b, n - 1) + (a[n] - b[n]) * (a[n] - b[n])

\* Math.hypot(...v): the vectors of the model have integral norms.
Hypot(v) ==
    LET s == DotN(v, v, Len(v))
    IN  CHOOSE r \in 0..s : r * r = s

DimensionMismatch == [err |-> "Vectors must have the same dimension."]

IsThrown(x) == "err" \in DOMAIN x

\* cosineSimilarity without its length guard (a.reduce reads b[i] = undefined
\* past the end of b and the sum becomes NaN; a shorter a is silently cut).
cosineSimilarityUnguarded(a, b) ==
    IF Len(a) > Len(b) THEN [num |-> 0, den |-> 0]
    ELSE [num |-> DotN(a, b, Len(a)), den |-> Hypot(a) * Hypot(b)]

\* private cosineSimilarity(a, b): dot / (na * nb), a throw on unequal length.
cosineSimilarity(a, b) ==
    IF Len(a) # Len(b) THEN DimensionMismatch
    ELSE [num |-> DotN(a, b, Len(a)), den |-> Hypot(a) * Hypot(b)]

\* private euclideanDistance(a, b): Math.sqrt of the summed squared
\* differences, kept as [sq |-> the sum]; a throw on unequal length.
euclideanDistance(a, b) ==
    IF Len(a) # Len(b) THEN DimensionMismatch
    ELSE [sq |-> SumSqDiffN(a, b, Len(a))]

IsNaNScore(s) == s.den = 0

\* b.score - a.score as a sign; NaN when either score is NaN.
\* Returned as [nan |-> BOOLEAN, sign |-> -1 | 0 | 1].
ScoreDiff(a, b) ==
    IF IsNaNScore(a.score) \/ IsNaNScore(b.score) THEN [nan |-> TRUE, sign |-> 0]
    ELSE LET d == b.score.num * a.score.den - a.score.num * b.score.den
         IN  [nan |-> FALSE, sign |-> IF d > 0 THEN 1 ELSE IF d < 0 THEN -1 ELSE 0]

\* The comparator (a, b) => b.score - a.score as Array.prototype.sort uses
\* it: a NaN result counts as +0.
SortCompare(a, b) == ScoreDiff(a, b).sign

\* ---------------------------------------------------------------- sorting
\* Array.prototype.sort as the runtime (V8) performs it on an array shorter
\* than 64 elements: the leading run is found (and reversed when strictly
\* descending), then the rest is inserted by binary insertion.  With a
\* consistent comparator this is the stable sort; with NaN scores the
\* comparator is not consistent and this is the order the runtime produces.
RECURSIVE RunLen(_, _, _)
RunLen(w, desc, idx) ==
    IF idx > Len(w) THEN idx - 1
    ELSE LET order == SortCompare(w[idx], w[idx - 1])
         IN  IF (desc /\ order >= 0) \/ (~desc /\ order < 0)
             THEN idx - 1
             ELSE RunLen(w, desc, idx + 1)

Reverse(w) == [i \in 1..Len(w) |-> w[Len(w) + 1 - i]]

RECURSIVE BinarySearchTiesLeft(_, _, _, _)
\* the insertion point with an equal pivot put before its equals
BinarySearchTiesLeft(w, pivot, left, right) ==
    IF left >= right THEN left
    ELSE LET mid == left + ((right - left) \div 2)
         IN  IF SortCompare(pivot, w[mid]) <= 0
             THEN BinarySearchTiesLeft(w, pivot, left, mid)
             ELSE BinarySearchTiesLeft(w, pivot, mid + 1, right)

RECURSIVE BinarySearch(_, _, _, _)
\* the insertion point of pivot in the sorted prefix w[left .. right-1]
BinarySearch(w, pivot, left, right) ==
    IF left >= right THEN left
    ELSE LET mid == left + ((right - left) \div 2)
         IN  IF SortCompare(pivot, w[mid]) < 0
             THEN BinarySearch(w, pivot, left, mid)
             ELSE BinarySearch(w, pivot, mid + 1, right)

RECURSIVE BinaryInsertionSort(_, _)
\* w[1 .. start-1] is sorted; insert w[start], w[start+1], ...
BinaryInsertionSort(w, start) ==
    IF start > Len(w) THEN w
    ELSE LET pivot == w[start]
             left == BinarySearch(w, pivot, 1, start)
             moved == SubSeq(w, 1, left - 1) \o <<pivot>>
                        \o SubSeq(w, left, start - 1)
                        \o SubSeq(w, start + 1, Len(w))
         IN  BinaryInsertionSort(moved, start + 1)

\* .sort((a, b) => b.score - a.score)
SortByScore(w) ==
    IF Len(w) < 2 THEN w
    ELSE LET desc == SortCompare(w[2], w[1]) < 0
             run == RunLen(w, desc, 3)
             made == IF desc
                     THEN Reverse(SubSeq(w, 1, run)) \o SubSeq(w, run + 1, Len(w))
                     ELSE w
         IN  BinaryInsertionSort(made, run + 1)

\* Array.prototype.slice(0, end), a negative end counting from the back
Slice0(w, end) ==
    LET n == Len(w)
        k == IF end < 0 THEN (IF n + end < 0 THEN 0 ELSE n + end)
             ELSE (IF end > n THEN n ELSE end)
    IN  SubSeq(w, 1, k)

\* score >= t, with t in hundredths; false for a NaN score
ScoreAtLeast(s, t) == ~IsNaNScore(s) /\ 100 * s.num >= t * s.den

\* distance <= d, with d in hundredths (d >= 0)
DistanceAtMost(dist, d) == d >= 0 /\ 10000 * dist.sq <= d * d

\* ------------------------------------------------------- metadata, filters
(***************************************************************************)
(* A metadata value is tagged with its JavaScript type: [t |-> "str"],     *)
(* "num", "arr" (an array of strings) or "null".  A metadata mapping is a  *)
(* record over MetaKeys in which a key the object does not own maps to     *)
(* Absent.  A chunk record without a meta field has meta = Undefined.      *)
(***************************************************************************)
Undefined == [t |-> "undefined"]
Absent == [t |-> "absent"]
Null == [t |-> "null"]
Str(s) == [t |-> "str", s |-> s]
Num(n) == [t |-> "num", n |-> n]
Arr(a) == [t |-> "arr", a |-> a]

MetaKeys == {"category", "priority", "date", "tags", "constructor", "missing"}

\* Properties every object inherits from Object.prototype: meta[key] finds
\* them although the metadata does not own them.
InheritedKeys == {"constructor"}

ObjectConstructorString == "function Object() { [native code] }"

IsMapping(meta) == "t" \notin DOMAIN meta

\* meta?.[key]
Get(meta, key) ==
    IF ~IsMapping(meta) THEN Undefined
    ELSE IF meta[key] # Absent THEN meta[key]
    ELSE IF key \in InheritedKeys THEN [t |-> "inherited", key |-> key]
    ELSE Undefined

\* Array.prototype.join(",") on the arrays of the model
JoinComma(a) ==
    CASE a = <<>> -> ""
      [] a = <<"pets">> -> "pets"
      [] a = <<"pets", "dogs">> -> "pets,dogs"

\* String.prototype.split(",") on the strings of the model
SplitComma(s) == IF s = "pets,dogs" THEN <<"pets", "dogs">> ELSE <<s>>

\* Number.prototype.toString on the numbers of the model
NumberToString(n) ==
    CASE n = 0 -> "0"
      [] n = 5 -> "5"
      [] n = 10 -> "10"

\* Array.isArray(x) ? x.join(",") : x.toString()
ToStr(val) ==
    CASE val.t = "str" -> val.s
      [] val.t = "num" -> NumberToString(val.n)
      [] val.t = "arr" -> JoinComma(val.a)
      [] val.t = "inherited" -> ObjectConstructorString

NaN == [nan |-> TRUE, v |-> 0]
Finite(n) == [nan |-> FALSE, v |-> n]

\* Number(s) on the strings of the model
ToNumber(s) ==
    CASE s = "0" -> Finite(0)
      [] s = "5" -> Finite(5)
      [] s = "10" -> Finite(10)
      [] OTHER -> NaN

(***************************************************************************)
(* Date.parse(s) on the strings of the model, in seconds since the epoch   *)
(* (the runtime returns milliseconds; every number of the model is below   *)
(* every timestamp in either unit, so each comparison has the same         *)
(* outcome).  The ISO dates parse as UTC midnight; "0", "5" and "10" are   *)
(* read by the runtime's legacy parser as 2000-01-01, 2001-05-01 and       *)
(* 2001-10-01.                                                             *)
(***************************************************************************)
DateParse(s) ==
    CASE s = "2024-01-01" -> Finite(1704067200)
      [] s = "2023-06-15" -> Finite(1686787200)
      [] s = "0" -> Finite(946684800)
      [] s = "5" -> Finite(988675200)
      [] s = "10" -> Finite(1001894400)
      [] OTHER -> NaN

\* x || y on numbers: y when x is NaN or 0
OrElse(x, y) == IF x.nan \/ x.v = 0 THEN y ELSE x

\* Number(s) || Date.parse(s)
Coerce(s) == OrElse(ToNumber(s), DateParse(s))

Ops == {"=", "in", ">=", "<=", ">", "<"}

Compare(op, l, r) ==
    CASE op = ">=" -> l >= r
      [] op = "<=" -> l <= r
      [] op = ">" -> l > r
      [] op = "<" -> l < r
      [] OTHER -> FALSE

\* private satisfies(meta, f)
satisfies(meta, f) ==
    LET actualRaw == Get(meta, f.key)
    IN  IF actualRaw = Undefined \/ actualRaw = Null THEN FALSE
        ELSE LET actualStr == ToStr(actualRaw)
             IN  IF f.op = "=" THEN f.value.t = "str" /\ actualStr = f.value.s
                 ELSE IF f.op = "in"
                 THEN LET list == IF f.value.t = "arr" THEN f.value.a
                                  ELSE SplitComma(f.value.s)
                      IN  \E i \in 1..Len(list) : list[i] = actualStr
                 ELSE LET left == Coerce(actualStr)
                          right == Coerce(ToStr(f.value))
                      IN  IF left.nan \/ right.nan THEN FALSE
                          ELSE Compare(f.op, left.v, right.v)

\* ------------------------------------------------------------- chunk store
Meta(category, priority) ==
    [k \in MetaKeys |-> IF k = "category" THEN category
                        ELSE IF k = "priority" THEN priority
                        ELSE Absent]

MetaPets == Meta(Str("pets"), Num(5))
MetaWild == Meta(Str("wildlife"), Num(0))

\* interface Chunk { text, embedding, meta }
Chunk(text, embedding, meta) ==
    [text |-> text, embedding |-> embedding, meta |-> meta]

Cats == Chunk("cats are mammals", <<3, 4>>, MetaPets)
Dogs == Chunk("dogs are mammals", <<4, 3>>, MetaPets)
Birds == Chunk("birds can fly", <<3, 0>>, MetaWild)
Void == Chunk("void", <<0, 0>>, MetaWild)
Bare == Chunk("bare", <<0, 1>>, Undefined)
Short == Chunk("short", <<1>>, MetaPets)

\* chunks whose scores tie for the question <<3, 0>>: Twin with Cats, Echo
\* with Dogs
Twin == Chunk("twin", <<6, 8>>, MetaPets)
Echo == Chunk("echo", <<8, 6>>, MetaPets)

\* lines that are no chunk records: {"text":"orphan","meta":{...}} parses but
\* has no embedding; {oops does not parse
Orphan == [text |-> "orphan", meta |-> MetaWild]
Garbled == [raw |-> "{oops"]

\* topics with such a line in one of their files
CorruptStores ==
    { << << Cats, Orphan >> >>, << << Orphan >> >>, << << Cats >>, << Orphan, Dogs >> >>,
      << << Cats, Garbled >> >>, << << Garbled >> >>, << << Cats >>, << Garbled, Dogs >> >>,
      << << Cats, Dogs >>, <<>> >> }

(***************************************************************************)
(* A chunk-store file is the sequence of records it holds, one per line.   *)
(* The empty sequence is the file ingest writes for a document with no     *)
(* non-empty body line: chunks.map(JSON.stringify).join("\n") is "".       *)
(***************************************************************************)
FilePool ==
    { <<Cats, Dogs>>, <<Cats>>, <<Void, Birds>>, <<Bare>>, <<Short>>, <<>> }

RECURSIVE SeqsUpTo(_, _)
SeqsUpTo(S, n) ==
    IF n = 0 THEN { <<>> }
    ELSE LET shorter == SeqsUpTo(S, n - 1)
         IN  shorter \cup
             { Append(q, x) : q \in { r \in shorter : Len(r) = n - 1 }, x \in S }

\* The topic directories explored: up to MaxFiles distinct files, in every
\* enumeration order walk() may produce.
Stores ==
    { st \in SeqsUpTo(FilePool, MaxFiles) :
        \A i, j \in 1..Len(st) : i # j => st[i] # st[j] }

\* files holding chunks with equal scores, and one with an undefined score
TiedFiles ==
    { f \in SeqsUpTo({ Cats, Twin, Dogs, Echo, Void }, 4) :
        /\ Len(f) > 0
        /\ \A i, j \in 1..Len(f) : i # j => f[i] # f[j] }

\* (await Deno.readTextFile(path)).trim().split("\n"): "" splits into [""]
Lines(file) == IF Len(file) = 0 THEN << [raw |-> ""] >> ELSE file

\* JSON.parse(line) throws on a line that is not a JSON text
ParseFails(line) == "raw" \in DOMAIN line

\* c.meta ?? {}
MetaOrEmpty(c) == IF c.meta = Undefined THEN [k \in MetaKeys |-> Absent] ELSE c.meta

\* filters.some(...) in place of filters.every(...)
PassesFiltersSome(c, filters) ==
    \E i \in 1..Len(filters) : satisfies(MetaOrEmpty(c), filters[i])

\* filters.every((f) => this.satisfies(c.meta ?? {}, f))
PassesFilters(c, filters) ==
    \A i \in 1..Len(filters) : satisfies(MetaOrEmpty(c), filters[i])

RECURSIVE PushLines(_, _, _, _)
\* for (const line of lines) { c = JSON.parse(line); if (...) chunks.push(c) }
\* from line i on; [thrown |-> TRUE] when a line does not parse.
PushLines(lines, i, filters, acc) ==
    IF i > Len(lines) THEN [thrown |-> FALSE, chunks |-> acc]
    ELSE IF ParseFails(lines[i]) THEN [thrown |-> TRUE, chunks |-> acc]
    ELSE PushLines(lines, i + 1, filters,
                   IF PassesFilters(lines[i], filters)
                   THEN Append(acc, lines[i]) ELSE acc)

\* ------------------------------------------------------------------- state
VARIABLES
    store,          \* the topic's chunk-store files, in enumeration order
    config,         \* this.config
    pc,             \* where the call in flight is suspended
    call,           \* the arguments of the call in flight
    fileIdx,        \* the next file the walk yields
    chunks,         \* search: the chunks that passed the filters so far
    qVec,           \* search: the embedded question
    scored,         \* search: the sorted, sliced candidates
    searchOut,      \* what search returned or threw
    queryOut,       \* what query returned or threw
    embedCalls,     \* embedding requests issued by the call in flight
    completeCalls,  \* completion requests issued by the call in flight
    satIn,          \* satisfies: the arguments of the last application
    satOut,         \* satisfies: its result
    pfArgs,         \* parseFilters: the argument list of the last application
    pfOut,          \* parseFilters: its result
    ing,            \* ingest: the call in flight and its locals
    ingOut,         \* ingest: what the last call returned or threw
    ingests,        \* ingest: the calls started so far
    written,        \* the files ingest has written, by path
    latest,         \* per document, the chunks its last successful ingest built
    names,          \* the paths of the files of store, in the same order
    ctorIn,         \* constructor: the options, the environment, Deno.args
    ctorOut,        \* constructor: the this.config it built
    completeOut,    \* complete called on its own: what it returned or threw
    compIn,         \* complete: the configuration it reads, its prompt, the reply
    compOut,        \* complete: the request it sent and what it returned or threw
    embIn,          \* embed: the configuration it reads, its text, the reply
    embOut,         \* embed: the requests it sent and what it returned or threw
    thisConfig,     \* updateConfig, getConfig: this.config as an object
    heap,           \* the completionParams objects, by address
    gotConfig,      \* the object the last getConfig returned
    cfgCall,        \* the last call on the configuration
    isOpen,         \* Splinter: isOpen of each instance, in order of creation
    nativeLive,     \* libsplinter: the process's one connection is mapped
    nativeCloses,   \* per instance, its calls of splinter_close
    lastNative,     \* the last call that reached libsplinter
    splOut          \* Splinter: what the last call returned or threw

\* the state of the operations modelled apart from the engine's calls
cfgVars == << thisConfig, heap, gotConfig, cfgCall >>
splVars == << isOpen, nativeLive, nativeCloses, lastNative, splOut >>
auxVars == << compIn, compOut, embIn, embOut, cfgVars, splVars >>

\* the state that search and query never write
extVars == << pfArgs, pfOut, ing, ingOut, ingests, written, latest, names,
              ctorIn, ctorOut, completeOut, auxVars >>

vars == << store, config, pc, call, fileIdx, chunks, qVec, scored, searchOut,
           queryOut, embedCalls, completeCalls, satIn, satOut, extVars >>

\* ----------------------------------------------------------- configuration
NoUrl == ""
LocalUrl == "http://localhost:8080/completion"

\* Values the constructor's argument or updateConfig may carry (thresholds
\* in hundredths; 40 and 80 are the defaults of the constructor).
MinSimilarityValues == {40, 60}
MaxDistanceValues == {80, 400}
MaxResultsValues == 1..MaxResultsCap
CompletionUrlValues == {NoUrl, LocalUrl}
\* chunkSize: config.chunkSize ?? 3
DefaultChunkSize == 3
ChunkSizeValues == {1, 2}
\* topicsDirectory and embeddingsDirectory, at their defaults
TopicsDirectory == "topics"
EmbeddingsDirectory == "memory"

\* constructor(config): the fields search and query read
Configs ==
    [ minSimilarityThreshold : MinSimilarityValues,
      maxDistance : MaxDistanceValues,
      maxResults : MaxResultsValues,
      completionUrl : CompletionUrlValues,
      chunkSize : {DefaultChunkSize} ]

\* Partial<TietoConfig> arguments of updateConfig: the fields one update
\* may name and the values it may give each
ConfigFields ==
    {"minSimilarityThreshold", "maxDistance", "maxResults", "completionUrl"}

FieldValues(field) ==
    CASE field = "minSimilarityThreshold" -> MinSimilarityValues
      [] field = "maxDistance" -> MaxDistanceValues
      [] field = "maxResults" -> MaxResultsValues
      [] field = "completionUrl" -> CompletionUrlValues

\* ------------------------------------------------------------ call inputs
Filter(key, op, value) == [key |-> key, op |-> op, value |-> value]

FilterSets ==
    { <<>>,
      << Filter("category", "=", Str("pets")) >>,
      << Filter("category", "=", Str("pets")), Filter("priority", ">=", Str("10")) >>,
      << Filter("missing", "=", Str("pets")) >>,
      << Filter("category", "in", Arr(<<"pets", "dogs">>)),
         Filter("priority", "<=", Str("5")) >> }

Question == "what are cats?"

\* What the embedding provider may answer for the question.
EmbedReplies ==
    { [ok |-> TRUE, embedding |-> v] : v \in { <<3, 0>>, <<0, 1>>, <<0, 0>>, <<1>> } }
    \cup { [ok |-> FALSE, status |-> 500], [ok |-> TRUE, malformed |-> TRUE] }

\* What the completion provider may answer.
CompletionReplies ==
    { [ok |-> FALSE, status |-> 500],
      [ok |-> TRUE, shape |-> "chat", content |-> "answer"],
      [ok |-> TRUE, shape |-> "flat", content |-> "answer"],
      [ok |-> TRUE, shape |-> "other", content |-> ""] }

None == [kind |-> "none"]
Returned(v) == [kind |-> "ok", value |-> v]
Threw(e) == [kind |-> "error", err |-> e]

NoCall == [op |-> "none", filters |-> <<>>, returnRaw |-> FALSE]

\* ------------------------------------------------------------------ search
\* chunks.map((c) => ({ ...c, score: ..., distance: ... }))
ScoreChunks(cs, q) ==
    [ i \in 1..Len(cs) |->
        [ text |-> cs[i].text, embedding |-> cs[i].embedding, meta |-> cs[i].meta,
          score |-> cosineSimilarity(cs[i].embedding, q),
          distance |-> euclideanDistance(cs[i].embedding, q) ] ]

\* the map throws as soon as one comparison throws
ScoringThrows(cs, q) ==
    \E i \in 1..Len(cs) :
        \/ "embedding" \notin DOMAIN cs[i]
        \/ IsThrown(cosineSimilarity(cs[i].embedding, q))
        \/ IsThrown(euclideanDistance(cs[i].embedding, q))

\* what the map throws: a.length of an undefined embedding is a TypeError
ScoringError(cs, q) ==
    LET first == CHOOSE i \in 1..Len(cs) :
                    /\ ScoringThrows(<< cs[i] >>, q)
                    /\ \A j \in 1..(i - 1) : ~ScoringThrows(<< cs[j] >>, q)
    IN  IF "embedding" \notin DOMAIN cs[first] THEN "TypeError"
        ELSE DimensionMismatch.err

\* .sort((a, b) => b.score - a.score).slice(0, this.config.maxResults)
TopCandidates(cs, q, cfg) ==
    Slice0(SortByScore(ScoreChunks(cs, q)), cfg.maxResults)

\* the similarity test alone (the distance test left out)
RetainedBySimilarityOnly(c, cfg) ==
    ScoreAtLeast(c.score, cfg.minSimilarityThreshold)

\* both tests strict
RetainedStrict(c, cfg) ==
    /\ ScoreAtLeast(c.score, cfg.minSimilarityThreshold)
    /\ DistanceAtMost(c.distance, cfg.maxDistance)
    /\ 100 * c.score.num # cfg.minSimilarityThreshold * c.score.den
    /\ 10000 * c.distance.sq # cfg.maxDistance * cfg.maxDistance

\* chunk.score >= minSimilarityThreshold && chunk.distance <= maxDistance
Retained(c, cfg) ==
    /\ ScoreAtLeast(c.score, cfg.minSimilarityThreshold)
    /\ DistanceAtMost(c.distance, cfg.maxDistance)

RECURSIVE FilterRetained(_, _)
\* scored.filter((chunk) => ...)
FilterRetained(cands, cfg) ==
    IF cands = <<>> THEN <<>>
    ELSE LET rest == FilterRetained(Tail(cands), cfg)
         IN  IF Retained(Head(cands), cfg) THEN <<Head(cands)>> \o rest ELSE rest

\* async search(topic, question, filters): entry
SearchStart(filters) ==
    /\ pc = "idle"
    /\ pc' = "walking"
    /\ call' = [op |-> "search", filters |-> filters, returnRaw |-> FALSE]
    /\ fileIdx' = 1
    /\ chunks' = <<>>
    /\ qVec' = <<>>
    /\ scored' = <<>>
    /\ searchOut' = None
    /\ queryOut' = None
    /\ embedCalls' = 0
    /\ completeCalls' = 0
    /\ UNCHANGED << store, config, satIn, satOut, extVars >>

\* one turn of the for-await loop: read a file, parse and filter its lines
ReadFile ==
    /\ pc = "walking"
    /\ fileIdx <= Len(store)
    /\ LET got == PushLines(Lines(store[fileIdx]), 1, call.filters, chunks)
       IN  IF got.thrown
           THEN /\ searchOut' = Threw("SyntaxError")
                /\ pc' = "searchDone"
                /\ UNCHANGED << chunks, fileIdx >>
           ELSE /\ chunks' = got.chunks
                /\ fileIdx' = fileIdx + 1
                /\ UNCHANGED << searchOut, pc >>
    /\ UNCHANGED << store, config, call, qVec, scored, queryOut, embedCalls,
                    completeCalls, satIn, satOut, extVars >>

\* the end of the walk, no chunk kept: return []
ReturnEmpty ==
    /\ pc = "walking"
    /\ fileIdx > Len(store)
    /\ Len(chunks) = 0
    /\ searchOut' = Returned(<<>>)
    /\ pc' = "searchDone"
    /\ UNCHANGED << store, config, call, fileIdx, chunks, qVec, scored, queryOut,
                    embedCalls, completeCalls, satIn, satOut, extVars >>

\* the end of the walk, chunks kept: embed(question) sends its request
EmbedRequest ==
    /\ pc = "walking"
    /\ fileIdx > Len(store)
    /\ Len(chunks) > 0
    /\ embedCalls' = embedCalls + 1
    /\ pc' = "embedding"
    /\ UNCHANGED << store, config, call, fileIdx, chunks, qVec, scored, searchOut,
                    queryOut, completeCalls, satIn, satOut, extVars >>

\* embed() fails: a non-2xx status, or a body without data[0].embedding
EmbedFails(reply) ==
    /\ pc = "embedding"
    /\ ~reply.ok \/ "malformed" \in DOMAIN reply
    /\ searchOut' = Threw(IF reply.ok THEN "Embedding output malformed or missing"
                          ELSE "Embedding request failed")
    /\ pc' = "searchDone"
    /\ UNCHANGED << store, config, call, fileIdx, chunks, qVec, scored, queryOut,
                    embedCalls, completeCalls, satIn, satOut, extVars >>

\* embed() returns the vector: score, sort, slice, filter, return
ScoreAndReturn(reply) ==
    /\ pc = "embedding"
    /\ reply.ok /\ "embedding" \in DOMAIN reply
    /\ qVec' = reply.embedding
    /\ IF ScoringThrows(chunks, reply.embedding)
       THEN /\ searchOut' = Threw(ScoringError(chunks, reply.embedding))
            /\ UNCHANGED scored
       ELSE /\ scored' = TopCandidates(chunks, reply.embedding, config)
            /\ searchOut' = Returned(FilterRetained(scored', config))
    /\ pc' = "searchDone"
    /\ UNCHANGED << store, config, call, fileIdx, chunks, queryOut, embedCalls,
                    completeCalls, satIn, satOut, extVars >>

\* search's promise settles for a direct caller
SearchReturn ==
    /\ pc = "searchDone"
    /\ call.op = "search"
    /\ pc' = "idle"
    /\ UNCHANGED << store, config, call, fileIdx, chunks, qVec, scored, searchOut,
                    queryOut, embedCalls, completeCalls, satIn, satOut, extVars >>

\* ------------------------------------------------------- query and complete
\* A string value of the engine's interface.
Text(s) == [str |-> s]

NoChunksMessage == Text("No relevant chunks found above similarity threshold")

\* chunks.map((c) => c.text), later joined with "\n\n"
Context(cs) == [i \in 1..Len(cs) |-> cs[i].text]

\* buildPrompt(context, question): the framing line, the context between
\* the dashes, then "Question: <question>\n"
buildPrompt(context, question) ==
    [ framing |-> "Use the information between the dashes \"---\" to answer the question that follows:",
      context |-> context,
      question |-> question,
      trailer |-> "\n" ]

\* String.prototype.trim on the strings of the model
Trim(s) == IF s = " answer " THEN "answer" ELSE s

\* complete(): the text taken from a 2xx response body
CompletionText(reply) ==
    IF reply.shape = "chat" /\ reply.content # "" THEN Text(Trim(reply.content))
    ELSE IF reply.shape = "flat" /\ reply.content # "" THEN Text(Trim(reply.content))
    ELSE Text("")

\* async query(topic, question, filters, returnRaw): entry, calls search
QueryStart(filters, returnRaw) ==
    /\ pc = "idle"
    /\ pc' = "walking"
    /\ call' = [op |-> "query", filters |-> filters, returnRaw |-> returnRaw]
    /\ fileIdx' = 1
    /\ chunks' = <<>>
    /\ qVec' = <<>>
    /\ scored' = <<>>
    /\ searchOut' = None
    /\ queryOut' = None
    /\ embedCalls' = 0
    /\ completeCalls' = 0
    /\ UNCHANGED << store, config, satIn, satOut, extVars >>

\* the no-chunk branch with a completion request slipped in
QueryNoChunksCompleting(found) ==
    /\ completeCalls' = completeCalls + 1
    /\ queryOut' = None
    /\ pc' = "completing"

\* if (!chunks.length) return returnRaw ? { chunks: [] } : msg
QueryNoChunks(found) ==
    /\ queryOut' = Returned(IF call.returnRaw THEN [chunks |-> <<>>]
                            ELSE NoChunksMessage)
    /\ pc' = "queryDone"
    /\ UNCHANGED completeCalls

\* the rest of query once chunks were found, raw mode never completing
QueryWithChunksRawSilent(found) ==
    LET prompt == buildPrompt(Context(found), Question)
    IN  IF config.completionUrl = NoUrl \/ call.returnRaw
        THEN /\ queryOut' = Returned(IF call.returnRaw
                                     THEN [chunks |-> found, response |-> Undefined,
                                           prompt |-> prompt]
                                     ELSE prompt)
             /\ pc' = "queryDone"
             /\ UNCHANGED completeCalls
        ELSE /\ completeCalls' = completeCalls + 1
             /\ queryOut' = None
             /\ pc' = "completing"

\* the rest of query once chunks were found
QueryWithChunks(found) ==
    LET prompt == buildPrompt(Context(found), Question)
    IN  IF config.completionUrl = NoUrl
        THEN /\ queryOut' = Returned(IF call.returnRaw
                                     THEN [chunks |-> found, response |-> Undefined,
                                           prompt |-> prompt]
                                     ELSE prompt)
             /\ pc' = "queryDone"
             /\ UNCHANGED completeCalls
        ELSE \* complete(prompt) sends its request
             /\ completeCalls' = completeCalls + 1
             /\ queryOut' = None
             /\ pc' = "completing"

\* query resumes after `await this.search(...)`
QueryResume ==
    /\ pc = "searchDone"
    /\ call.op = "query"
    /\ IF searchOut.kind = "error"
       THEN /\ queryOut' = searchOut
            /\ pc' = "queryDone"
            /\ UNCHANGED completeCalls
       ELSE IF Len(searchOut.value) = 0
            THEN QueryNoChunks(searchOut.value)
            ELSE QueryWithChunks(searchOut.value)
    /\ UNCHANGED << store, config, call, fileIdx, chunks, qVec, scored, searchOut,
                    embedCalls, satIn, satOut, extVars >>

\* complete() resumes with the provider's response; query returns or throws
CompleteResponse(reply) ==
    /\ pc = "completing"
    /\ IF ~reply.ok
       THEN queryOut' = Threw("Completion request failed")
       ELSE LET response == CompletionText(reply)
            IN  queryOut' =
                    Returned(IF call.returnRaw
                             THEN [chunks |-> searchOut.value, response |-> response,
                                   prompt |-> buildPrompt(Context(searchOut.value),
                                                          Question)]
                             ELSE response)
    /\ pc' = "queryDone"
    /\ UNCHANGED << store, config, call, fileIdx, chunks, qVec, scored, searchOut,
                    embedCalls, completeCalls, satIn, satOut, extVars >>

\* query's promise settles
QueryReturn ==
    /\ pc = "queryDone"
    /\ pc' = "idle"
    /\ UNCHANGED << store, config, call, fileIdx, chunks, qVec, scored, searchOut,
                    queryOut, embedCalls, completeCalls, satIn, satOut, extVars >>

\* ----------------------------------------------- complete called on its own
\* the prompt a caller hands to complete
OwnPrompt == Text("say hello")

\* the rest of complete once a completion endpoint was found: the request is sent
CompleteSends ==
    /\ completeCalls' = 1
    /\ completeOut' = None
    /\ pc' = "completingAlone"

\* if (!this.config.completionUrl) return prompt
CompleteEcho(prompt) ==
    /\ completeCalls' = 0
    /\ completeOut' = Returned(prompt)
    /\ pc' = "completeDone"

\* async complete(prompt): entry, up to the fetch
CompleteStart ==
    /\ pc = "idle"
    /\ call' = [op |-> "complete", filters |-> <<>>, returnRaw |-> FALSE]
    /\ fileIdx' = 1
    /\ chunks' = <<>>
    /\ qVec' = <<>>
    /\ scored' = <<>>
    /\ searchOut' = None
    /\ queryOut' = None
    /\ embedCalls' = 0
    /\ IF config.completionUrl = NoUrl
       THEN CompleteEcho(OwnPrompt)
       ELSE CompleteSends
    /\ UNCHANGED << store, config, satIn, satOut, pfArgs, pfOut, ing, ingOut,
                    ingests, written, latest, names, ctorIn, ctorOut, auxVars >>

\* complete resumes with the provider's response
CompleteAloneResponse(reply) ==
    /\ pc = "completingAlone"
    /\ completeOut' = IF ~reply.ok THEN Threw("Completion request failed")
                      ELSE Returned(CompletionText(reply))
    /\ pc' = "completeDone"
    /\ UNCHANGED << store, config, call, fileIdx, chunks, qVec, scored, searchOut,
                    queryOut, embedCalls, completeCalls, satIn, satOut, pfArgs,
                    pfOut, ing, ingOut, ingests, written, latest, names,
                    ctorIn, ctorOut, auxVars >>

\* complete's promise settles and the caller takes its value
CompleteReturn ==
    /\ pc = "completeDone"
    /\ pc' = "idle"
    /\ completeOut' = None
    /\ UNCHANGED << store, config, call, fileIdx, chunks, qVec, scored, searchOut,
                    queryOut, embedCalls, completeCalls, satIn, satOut, pfArgs,
                    pfOut, ing, ingOut, ingests, written, latest, names,
                    ctorIn, ctorOut, auxVars >>

\* updateConfig(updates): this.config = { ...this.config, ...updates };
\* it may run between calls and while a call is suspended on I/O
UpdateConfig(field, value) ==
    /\ pc \in {"idle", "walking", "embedding", "completing", "completingAlone"}
    /\ config[field] # value
    /\ config' = [config EXCEPT ![field] = value]
    /\ UNCHANGED << store, pc, call, fileIdx, chunks, qVec, scored, searchOut,
                    queryOut, embedCalls, completeCalls, satIn, satOut, extVars >>

\* ------------------------------------------------------------------ ingest
(***************************************************************************)
(* A path is the sequence of its segments, which is what path.split("/")   *)
(* returns.  A document is its path, the lines of its body and the         *)
(* metadata of its front matter.                                           *)
(***************************************************************************)
Doc(path, body, meta) == [path |-> path, body |-> body, meta |-> meta]

DocCats ==
    Doc(<< "topics", "pets", "cats.txt" >>,
        << "cats are mammals", " dogs are mammals ", "", "birds can fly" >>, MetaPets)
\* the same document after an edit
DocCatsEdited ==
    Doc(<< "topics", "pets", "cats.txt" >>, << "cats purr" >>, MetaPets)
\* a document without a non-empty line
DocEmpty == Doc(<< "topics", "pets", "empty.txt" >>, << "", "  " >>, MetaPets)
\* a markdown document
DocDogs == Doc(<< "topics", "pets", "dogs.md" >>, << "dogs bark" >>, MetaPets)
\* two documents one directory further down
DocNotesA == Doc(<< "topics", "pets", "notes", "a.md" >>, << "note a" >>, MetaWild)
DocNotesB == Doc(<< "topics", "pets", "notes", "b.md" >>, << "note b" >>, MetaWild)

Docs == {DocCats, DocCatsEdited, DocEmpty, DocDogs, DocNotesA, DocNotesB}

DocPaths == { d.path : d \in Docs }

\* String.prototype.trim on the lines of the documents
TrimLine(l) ==
    CASE l = " dogs are mammals " -> "dogs are mammals"
      [] l = "  " -> ""
      [] OTHER -> l

RECURSIVE TrimmedNonEmpty(_)
\* body.split("\n").map((l) => l.trim()).filter(Boolean)
TrimmedNonEmpty(body) ==
    IF body = <<>> THEN <<>>
    ELSE LET l == TrimLine(Head(body))
         IN  (IF l = "" THEN <<>> ELSE << l >>) \o TrimmedNonEmpty(Tail(body))

\* the index Array.prototype.slice makes of an argument: a negative one
\* counts from the end, and both ends are clamped to the array
RelativeIndex(k, len) ==
    IF k < 0 THEN (IF len + k < 0 THEN 0 ELSE len + k)
    ELSE IF k > len THEN len ELSE k

\* lines.slice(i, i + size), i counted from 0; joined with "\n" the lines
\* are the chunk's text
SliceLines(lines, i, size) ==
    SubSeq(lines, RelativeIndex(i, Len(lines)) + 1, RelativeIndex(i + size, Len(lines)))

\* nameTxt.replace(/\.txt$/, ".jsonl") on the names of the model
ReplaceTxt(name) ==
    CASE name = "cats.txt" -> "cats.jsonl"
      [] name = "empty.txt" -> "empty.jsonl"
      [] OTHER -> name

\* const [, topic, nameTxt] = path.split("/"); the path of the file written
OutPath(path) ==
    << TopicsDirectory, path[2], EmbeddingsDirectory, ReplaceTxt(path[3]) >>

OutPaths == { OutPath(p) : p \in DocPaths }

\* the topic search is called with
SearchTopic == "pets"

\* walk(memDir, { exts: [".jsonl"], includeDirs: false }) yields the file
Enumerated(out) ==
    /\ out[1] = TopicsDirectory
    /\ out[2] = SearchTopic
    /\ out[3] = EmbeddingsDirectory
    /\ out[4] \in {"cats.jsonl", "empty.jsonl", "a.jsonl", "b.jsonl", "c.jsonl"}

NoFile == [there |-> FALSE, recs |-> <<>>]
File(recs) == [there |-> TRUE, recs |-> recs]

NotIngested == [done |-> FALSE, recs |-> <<>>]

\* What the embedding provider may answer for a chunk's text.
IngestReplies == { [ok |-> TRUE, embedding |-> << 3, 0 >>], [ok |-> FALSE, status |-> 500] }

NoIngest ==
    [ pc |-> "idle", path |-> <<>>, body |-> <<>>, meta |-> Undefined, lines |-> <<>>,
      i |-> 0, text |-> <<>>, chunks |-> <<>>, embeds |-> 0, out |-> <<>>,
      prev |-> NoFile ]

\* the file at path out holds recs: the directory listing and the files
\* search walks follow
PutFile(out, recs) ==
    /\ written' = [written EXCEPT ![out] = File(recs)]
    /\ IF ~Enumerated(out) THEN UNCHANGED << store, names >>
       ELSE IF \E k \in 1..Len(names) : names[k] = out
       THEN /\ store' = [k \in 1..Len(store) |-> IF names[k] = out THEN recs ELSE store[k]]
            /\ UNCHANGED names
       ELSE /\ store' = Append(store, recs)
            /\ names' = Append(names, out)

\* what ingest leaves alone: the call of search or query in flight and the
\* applications of the pure functions
callVars == << pc, call, fileIdx, chunks, qVec, scored, searchOut, queryOut,
               embedCalls, completeCalls, satIn, satOut, pfArgs, pfOut,
               ctorIn, ctorOut, completeOut, auxVars >>

\* async ingest(path): entry, Deno.readTextFile(path) is issued
IngestStart(doc) ==
    /\ ing.pc = "idle"
    /\ ingests < MaxIngests
    /\ ing' = [NoIngest EXCEPT !.pc = "reading", !.path = doc.path,
                               !.body = doc.body, !.meta = doc.meta]
    /\ ingOut' = None
    /\ ingests' = ingests + 1
    /\ UNCHANGED << store, config, written, latest, names, callVars >>

\* the loop is left: the path of the output is built and Deno.writeTextFile
\* is issued (prev keeps what the file held at that moment)
StartWrite(rec) ==
    [rec EXCEPT !.out = OutPath(rec.path), !.prev = written[OutPath(rec.path)],
                !.pc = "opening"]

\* the document is read: front matter and body are split, the lines are
\* trimmed and filtered, and the loop runs to its first embed(text)
IngestRead ==
    /\ ing.pc = "reading"
    /\ LET lines == TrimmedNonEmpty(ing.body)
           rec == [ing EXCEPT !.lines = lines, !.i = 0]
       IN  ing' = IF 0 < Len(lines)
                  THEN [rec EXCEPT !.text = SliceLines(lines, 0, config.chunkSize),
                                   !.embeds = 1, !.pc = "embedding"]
                  ELSE StartWrite(rec)
    /\ UNCHANGED << store, config, ingOut, ingests, written, latest, names, callVars >>

\* embed(text) fails and the chunks embedded so far are written
IngestEmbedFailsWritingPartial(reply) ==
    /\ ing.pc = "embedding"
    /\ ~reply.ok
    /\ PutFile(OutPath(ing.path), ing.chunks)
    /\ ing' = NoIngest
    /\ ingOut' = Threw("Embedding request failed")
    /\ UNCHANGED << config, ingests, latest, callVars >>

\* embed(text) fails: ingest rejects and nothing is written
IngestEmbedFails(reply) ==
    /\ ing.pc = "embedding"
    /\ ~reply.ok
    /\ ing' = NoIngest
    /\ ingOut' = Threw("Embedding request failed")
    /\ UNCHANGED << store, config, ingests, written, latest, names, callVars >>

\* embed(text) returns: the chunk is pushed, i += this.config.chunkSize,
\* and the loop runs to its next embed(text) or ends
IngestEmbedded(reply) ==
    /\ ing.pc = "embedding"
    /\ reply.ok
    /\ LET i2 == ing.i + config.chunkSize
           rec == [ing EXCEPT !.chunks = Append(ing.chunks,
                                                Chunk(ing.text, reply.embedding, ing.meta)),
                              !.i = i2]
       IN  ing' = IF i2 < Len(ing.lines)
                  THEN [rec EXCEPT !.text = SliceLines(ing.lines, i2, config.chunkSize),
                                   !.embeds = ing.embeds + 1]
                  ELSE StartWrite(rec)
    /\ UNCHANGED << store, config, ingOut, ingests, written, latest, names, callVars >>

\* Deno.writeTextFile opens the file: it is created or truncated
IngestTruncate ==
    /\ ing.pc = "opening"
    /\ PutFile(ing.out, <<>>)
    /\ ing' = [ing EXCEPT !.pc = "writing"]
    /\ UNCHANGED << config, ingOut, ingests, latest, callVars >>

\* Deno.writeTextFile writes the records and ingest returns
IngestWrite ==
    /\ ing.pc = "writing"
    /\ PutFile(ing.out, ing.chunks)
    /\ latest' = [latest EXCEPT ![ing.path] = [done |-> TRUE, recs |-> ing.chunks]]
    /\ ing' = NoIngest
    /\ ingOut' = Returned("void")
    /\ UNCHANGED << config, ingests, callVars >>

\* -------------------------------------------------------------- constructor
\* an option, an environment variable or a property that may be missing
NotGiven == [given |-> FALSE]
Opt(v) == [given |-> TRUE, v |-> v]

\* a ?? b
Coalesce(a, b) == IF a.given THEN a.v ELSE b

\* Deno.env.get(name)
EnvGet(env, name) == env[name]

\* config.completionParams?.<name>
ParamOf(options, name) ==
    IF options.completionParams.given
    THEN options.completionParams.v[name]
    ELSE NotGiven

DefaultEmbeddingUrl == "http://localhost:8080/v1/embeddings"
EnvEmbeddingUrl == "http://env:8080/v1/embeddings"
EnvCompletionUrl == "http://env:8080/completion"

\* constructor(config: TietoConfig = {})
Construct(options, env, args) ==
    [ minSimilarityThreshold |-> Coalesce(options.minSimilarityThreshold, 40),
      maxDistance |-> Coalesce(options.maxDistance, 80),
      topicsDirectory |-> Coalesce(options.topicsDirectory, "topics"),
      embeddingsDirectory |-> Coalesce(options.embeddingsDirectory, "memory"),
      debug |-> Coalesce(options.debug,
                    \/ "--debug" \in args
                    \/ EnvGet(env, "TIETO_DEBUG") = Opt("1")),
      embeddingUrl |-> Coalesce(options.embeddingUrl,
                          Coalesce(EnvGet(env, "TIETO_EMBEDDING_URL"),
                                   DefaultEmbeddingUrl)),
      completionUrl |-> Coalesce(options.completionUrl,
                           Coalesce(EnvGet(env, "TIETO_COMPLETION_URL"), NoUrl)),
      apiKey |-> Coalesce(options.apiKey,
                    Coalesce(EnvGet(env, "TIETO_API_KEY"), "")),
      chunkSize |-> Coalesce(options.chunkSize, 3),
      maxResults |-> Coalesce(options.maxResults, 3),
      completionParams |->
        [ temperature |-> 0,
          n_predict |-> 128,
          max_tokens |-> 500,
          modelName |-> Coalesce(ParamOf(options, "modelName"), "") ] ]

\* the completionParams a caller passes
ParamOptions ==
    [ temperature : {NotGiven, Opt(70)},
      n_predict : {NotGiven, Opt(256)},
      max_tokens : {NotGiven, Opt(1000)},
      modelName : {NotGiven, Opt("claude-3-haiku-20240307")} ]

\* the options a caller passes
CtorOptions ==
    [ minSimilarityThreshold : {NotGiven, Opt(60)},
      maxDistance : {NotGiven},
      topicsDirectory : {NotGiven},
      embeddingsDirectory : {NotGiven},
      debug : {NotGiven, Opt(FALSE)},
      embeddingUrl : {NotGiven, Opt("http://embed.example/v1/embeddings")},
      completionUrl : {NotGiven, Opt(NoUrl), Opt(LocalUrl)},
      apiKey : {NotGiven},
      chunkSize : {NotGiven, Opt(2)},
      maxResults : {NotGiven},
      completionParams : {NotGiven} \cup { Opt(p) : p \in ParamOptions } ]

\* the environment the process runs in
CtorEnvs ==
    [ TIETO_DEBUG : {NotGiven, Opt("1"), Opt("0")},
      TIETO_EMBEDDING_URL : {NotGiven, Opt(EnvEmbeddingUrl)},
      TIETO_COMPLETION_URL : {NotGiven, Opt(EnvCompletionUrl)},
      TIETO_API_KEY : {NotGiven, Opt("secret")} ]

\* Deno.args
CtorArgs == { {}, {"--debug"} }

NoCtor == [options |-> NotGiven, env |-> NotGiven, args |-> {}]

NoComp == [url |-> <<>>]
NoEmbed == [text |-> <<>>]

NoConfig == [chunkSize |-> 0, maxResults |-> 0, completionParams |-> 0]
NoUpdate == [top |-> <<>>, params |-> [given |-> FALSE]]
NoConfigCall == [op |-> "none", n |-> 0, u |-> NoUpdate]
NoNative == [op |-> "none", by |-> 0, live |-> FALSE]

\* the configuration object is not modelled apart
InitConfigIdle ==
    /\ thisConfig = NoConfig
    /\ heap = <<>>
    /\ gotConfig = [given |-> FALSE]
    /\ cfgCall = NoConfigCall

\* no Splinter instance, no connection
InitSplinterIdle ==
    /\ isOpen = <<>>
    /\ nativeLive = FALSE
    /\ nativeCloses = <<>>
    /\ lastNative = NoNative
    /\ splOut = None

InitSide ==
    /\ InitConfigIdle
    /\ InitSplinterIdle

\* embed is not modelled apart
InitEmbedIdle ==
    /\ embIn = NoEmbed
    /\ embOut = None

\* no application of the operations modelled apart
InitAux ==
    /\ compIn = NoComp
    /\ compOut = None
    /\ InitEmbedIdle
    /\ InitSide

\* no constructor application modelled apart
InitConstructed ==
    /\ ctorIn = NoCtor
    /\ ctorOut = None
    /\ completeOut = None
    /\ InitAux

\* new Tieto(ctorIn.options)
Constructor ==
    /\ ctorIn # NoCtor
    /\ ctorOut = None
    /\ ctorOut' = Returned(Construct(ctorIn.options, ctorIn.env, ctorIn.args))
    /\ UNCHANGED << store, config, pc, call, fileIdx, chunks, qVec, scored,
                    searchOut, queryOut, embedCalls, completeCalls, satIn, satOut,
                    pfArgs, pfOut, ing, ingOut, ingests, written, latest, names,
                    ctorIn, completeOut, auxVars >>

\* ----------------------------------------------------------- specification
NoSat == [meta |-> Undefined, filter |-> Filter("missing", "=", Str("pets"))]

\* the files of store under their names in the topic's directory
StoreNames(files) ==
    [ k \in 1..Len(files) |->
        << TopicsDirectory, SearchTopic, EmbeddingsDirectory,
           CASE k = 1 -> "a.jsonl" [] k = 2 -> "b.jsonl" [] OTHER -> "c.jsonl" >> ]

\* no ingest so far
InitIngested ==
    /\ ing = NoIngest
    /\ ingOut = None
    /\ ingests = 0
    /\ written = [p \in OutPaths |-> NoFile]
    /\ latest = [p \in DocPaths |-> NotIngested]
    /\ names = StoreNames(store)

\* no application of the operations modelled apart
InitExt ==
    /\ pfArgs = <<>>
    /\ pfOut = None
    /\ InitIngested
    /\ InitConstructed

\* no call in flight
InitCall ==
    /\ pc = "idle"
    /\ call = NoCall
    /\ fileIdx = 1
    /\ chunks = <<>>
    /\ qVec = <<>>
    /\ scored = <<>>
    /\ searchOut = None
    /\ queryOut = None
    /\ embedCalls = 0
    /\ completeCalls = 0

Init ==
    /\ store \in Stores
    /\ config \in Configs
    /\ InitCall
    /\ InitExt
    /\ satIn = NoSat
    /\ satOut = None

Next ==
    \/ \E f \in FilterSets : SearchStart(f)
    \/ \E f \in FilterSets, raw \in BOOLEAN : QueryStart(f, raw)
    \/ ReadFile
    \/ ReturnEmpty
    \/ EmbedRequest
    \/ \E r \in EmbedReplies : EmbedFails(r)
    \/ \E r \in EmbedReplies : ScoreAndReturn(r)
    \/ SearchReturn
    \/ QueryResume
    \/ \E r \in CompletionReplies : CompleteResponse(r)
    \/ QueryReturn
    \/ CompleteStart
    \/ \E r \in CompletionReplies : CompleteAloneResponse(r)
    \/ CompleteReturn
    \/ \E field \in ConfigFields : \E value \in FieldValues(field) :
            UpdateConfig(field, value)

Spec == Init /\ [][Next]_vars

\* ------------------------------------------- satisfies as a pure function
EmptyMeta == [k \in MetaKeys |-> Absent]

MetaDated ==
    [k \in MetaKeys |->
        CASE k = "category" -> Null
          [] k = "priority" -> Str("abc")
          [] k = "date" -> Str("2024-01-01")
          [] k = "tags" -> Arr(<<"pets", "dogs">>)
          [] OTHER -> Absent]

\* The first argument of satisfies: no metadata at all, an empty mapping,
\* and mappings with string, number, array and null values.
SatMetas == {Undefined, EmptyMeta, MetaPets, MetaWild, MetaDated}

SatValues ==
    { Str("pets"), Str("wildlife"), Str("0"), Str("5"), Str("10"),
      Str("2023-06-15"), Str("2024-01-01"), Str("abc"), Str("pets,dogs"),
      Arr(<<"pets", "dogs">>), Str(ObjectConstructorString) }

SatFilters == { Filter(k, op, v) : k \in MetaKeys, op \in Ops, v \in SatValues }

\* satisfies(satIn.meta, satIn.filter) is applied
Satisfies ==
    /\ satOut = None
    /\ satOut' = Returned(satisfies(satIn.meta, satIn.filter))
    /\ UNCHANGED << satIn, store, config, pc, call, fileIdx, chunks, qVec, scored,
                    searchOut, queryOut, embedCalls, completeCalls, extVars >>

NextSat == Satisfies

\* satisfies reads none of the engine's state: one engine with the
\* constructor's defaults, at rest, and every pair of arguments
InitSat ==
    /\ store = <<>>
    /\ config = [ minSimilarityThreshold |-> 40, maxDistance |-> 80,
                  maxResults |-> 3, completionUrl |-> NoUrl,
                  chunkSize |-> DefaultChunkSize ]
    /\ InitCall
    /\ InitExt
    /\ satIn \in [meta : SatMetas, filter : SatFilters]
    /\ satOut = None

SpecSat == InitSat /\ [][NextSat]_vars

\* ---------------------------------------- parseFilters as a pure function
(***************************************************************************)
(* A string of the argument list is the sequence of its characters.  The   *)
(* regular expression of parseFilters,                                     *)
(*     /^([^\s><=]+)\s*(>=|<=|=|>|<|in)\s*(.+)$/                           *)
(* is matched the way a backtracking matcher does: the key as long as      *)
(* possible, then the first run of blanks as long as possible, then the    *)
(* alternatives of the operator from left to right, then the second run    *)
(* of blanks as long as possible, the rest being the value.                *)
(***************************************************************************)
FlagToken == << "-", "-", "f", "i", "l", "t", "e", "r" >>
FlagPrefix == FlagToken \o << "=" >>

\* \s on the characters of the model
IsSpace(c) == c = " "

\* [^\s><=]
IsKeyChar(c) == ~IsSpace(c) /\ c \notin {">", "<", "="}

\* (>=|<=|=|>|<|in), in the order the alternation tries them
OpTokens == << << ">", "=" >>, << "<", "=" >>, << "=" >>, << ">" >>, << "<" >>,
               << "i", "n" >> >>

OpName(tok) ==
    CASE tok = << ">", "=" >> -> ">="
      [] tok = << "<", "=" >> -> "<="
      [] tok = << "=" >> -> "="
      [] tok = << ">" >> -> ">"
      [] tok = << "<" >> -> "<"
      [] tok = << "i", "n" >> -> "in"

\* String.prototype.startsWith
StartsWith(s, prefix) ==
    Len(s) >= Len(prefix) /\ SubSeq(s, 1, Len(prefix)) = prefix

\* s.slice(n)
SliceFrom(s, n) == SubSeq(s, n + 1, Len(s))

RECURSIVE TrimStart(_)
TrimStart(s) ==
    IF s # <<>> /\ IsSpace(Head(s)) THEN TrimStart(Tail(s)) ELSE s

RECURSIVE TrimEnd(_)
TrimEnd(s) ==
    IF s # <<>> /\ IsSpace(s[Len(s)]) THEN TrimEnd(SubSeq(s, 1, Len(s) - 1)) ELSE s

\* String.prototype.trim
TrimChars(s) == TrimEnd(TrimStart(s))

RECURSIVE SplitOn(_, _, _)
\* s.split(","): cur is the piece being read
SplitOn(s, sep, cur) ==
    IF s = <<>> THEN << cur >>
    ELSE IF Head(s) = sep THEN << cur >> \o SplitOn(Tail(s), sep, <<>>)
    ELSE SplitOn(Tail(s), sep, Append(cur, Head(s)))

RECURSIVE KeyRun(_)
\* the longest the key group can be: the leading characters of [^\s><=]
KeyRun(s) == IF s # <<>> /\ IsKeyChar(Head(s)) THEN 1 + KeyRun(Tail(s)) ELSE 0

\* the longest a run of blanks can be
Spaces(s) == Cardinality({ i \in 1..Len(s) : IsSpace(s[i]) })

\* the value group matching the empty string as well
MatchesEmptyValue(expr) ==
    { m \in [k : 1..KeyRun(expr), w1 : 0..Spaces(expr), o : 1..Len(OpTokens),
             w2 : 0..Spaces(expr)] :
        LET opAt == m.k + m.w1
            valAt == opAt + Len(OpTokens[m.o]) + m.w2
        IN  /\ valAt <= Len(expr)
            /\ \A i \in 1..m.k : IsKeyChar(expr[i])
            /\ \A i \in (m.k + 1)..opAt : IsSpace(expr[i])
            /\ SubSeq(expr, opAt + 1, opAt + Len(OpTokens[m.o])) = OpTokens[m.o]
            /\ \A i \in (opAt + Len(OpTokens[m.o]) + 1)..valAt : IsSpace(expr[i]) }

\* the ways the expression matches the regular expression: the length of
\* the key, of the first run of blanks, the operator's alternative and the
\* length of the second run of blanks
Matches(expr) ==
    { m \in [k : 1..KeyRun(expr), w1 : 0..Spaces(expr), o : 1..Len(OpTokens),
             w2 : 0..Spaces(expr)] :
        LET opAt == m.k + m.w1
            valAt == opAt + Len(OpTokens[m.o]) + m.w2
        IN  /\ valAt < Len(expr)
            /\ \A i \in 1..m.k : IsKeyChar(expr[i])
            /\ \A i \in (m.k + 1)..opAt : IsSpace(expr[i])
            /\ SubSeq(expr, opAt + 1, opAt + Len(OpTokens[m.o])) = OpTokens[m.o]
            /\ \A i \in (opAt + Len(OpTokens[m.o]) + 1)..valAt : IsSpace(expr[i]) }

\* m is tried before n by the matcher
TriedBefore(m, n) ==
    \/ m.k > n.k
    \/ m.k = n.k /\ m.w1 > n.w1
    \/ m.k = n.k /\ m.w1 = n.w1 /\ m.o < n.o
    \/ m.k = n.k /\ m.w1 = n.w1 /\ m.o = n.o /\ m.w2 >= n.w2

\* expr.match(...): the first match the matcher finds
Match(expr) ==
    LET ms == Matches(expr)
    IN  CHOOSE m \in ms : \A n \in ms : TriedBefore(m, n)

\* const [, key, op, valRaw] = match; the Filter pushed for the expression
FilterOf(expr, m) ==
    LET op == OpName(OpTokens[m.o])
        valRaw == SliceFrom(expr, m.k + m.w1 + Len(OpTokens[m.o]) + m.w2)
        pieces == SplitOn(valRaw, ",", <<>>)
    IN  Filter(SubSeq(expr, 1, m.k), op,
               IF op = "in"
               THEN Arr([i \in 1..Len(pieces) |-> TrimChars(pieces[i])])
               ELSE Str(TrimChars(valRaw)))

\* the flag alone, its value token not skipped
ExprAtNoSkip(args, i) ==
    IF args[i] = FlagToken
    THEN IF i + 1 <= Len(args)
         THEN [def |-> TRUE, s |-> args[i + 1], next |-> i + 1]
         ELSE [def |-> FALSE, s |-> <<>>, next |-> i + 1]
    ELSE IF StartsWith(args[i], FlagPrefix)
    THEN [def |-> TRUE, s |-> SliceFrom(args[i], Len(FlagPrefix)), next |-> i + 1]
    ELSE [def |-> FALSE, s |-> <<>>, next |-> i + 1]

\* one turn of the loop: the expression args[i] gives (def is FALSE when
\* expr stays undefined) and the index of the next turn
ExprAt(args, i) ==
    IF args[i] = FlagToken
    THEN IF i + 1 <= Len(args)
         THEN [def |-> TRUE, s |-> args[i + 1], next |-> i + 2]
         ELSE [def |-> FALSE, s |-> <<>>, next |-> i + 2]
    ELSE IF StartsWith(args[i], FlagPrefix)
    THEN [def |-> TRUE, s |-> SliceFrom(args[i], Len(FlagPrefix)), next |-> i + 1]
    ELSE [def |-> FALSE, s |-> <<>>, next |-> i + 1]

RECURSIVE ParseFrom(_, _, _)
\* the loop of parseFilters from index i on
ParseFrom(args, i, filters) ==
    IF i > Len(args) THEN filters
    ELSE LET e == ExprAt(args, i)
         IN  IF ~e.def \/ e.s = <<>> THEN ParseFrom(args, e.next, filters)
             ELSE IF Matches(e.s) = {} THEN ParseFrom(args, e.next, filters)
             ELSE ParseFrom(args, e.next, Append(filters, FilterOf(e.s, Match(e.s))))

parseFilters(args) == ParseFrom(args, 1, <<>>)

\* the characters expressions are drawn from
ExprChars == {"a", "i", "n", "=", ">", " "}

Exprs == UNION { [1..n -> ExprChars] : n \in 0..MaxExprLen }

\* expressions with a list, with "<" and with blanks around the operator
PickedExprs ==
    { << "a", "=", "n" >>,
      << "a", " ", "i", "n", " ", "i", ",", " ", "n" >>,
      << "a", "<", "=", "n" >>,
      << "a", " ", "<", " ", "n" >>,
      << "=", "=" >>,
      << "a", "=", " " >>,
      << "i", ">", "=", "n" >> }

\* argument lists: one expression in each surface form, bare, followed by
\* a trailing flag, and given to the flag in its own single-token form
ArgLists ==
    UNION { { << FlagToken, e >>,
              << FlagPrefix \o e >>,
              << e >>,
              << FlagToken, e, FlagToken >>,
              << FlagToken, FlagPrefix \o e >>,
              << FlagPrefix \o FlagPrefix \o e >> } : e \in Exprs \cup PickedExprs }
    \cup { << FlagToken, e1, FlagPrefix \o e2, << "a" >>, FlagToken, e3, FlagToken >> :
            e1 \in PickedExprs, e2 \in PickedExprs, e3 \in PickedExprs }
    \cup { <<>>, << FlagToken >>, << FlagToken, FlagToken >> }

\* parseFilters(pfArgs) is applied
ParseFilters ==
    /\ pfOut = None
    /\ pfOut' = Returned(parseFilters(pfArgs))
    /\ UNCHANGED << pfArgs, store, config, pc, call, fileIdx, chunks, qVec, scored,
                    searchOut, queryOut, embedCalls, completeCalls, satIn, satOut,
                    ing, ingOut, ingests, written, latest, names,
                    ctorIn, ctorOut, completeOut, auxVars >>

NextParse == ParseFilters

\* parseFilters reads only this.config.debug: one engine at rest and every
\* argument list
InitParse ==
    /\ store = <<>>
    /\ config = [ minSimilarityThreshold |-> 40, maxDistance |-> 80,
                  maxResults |-> 3, completionUrl |-> NoUrl,
                  chunkSize |-> DefaultChunkSize ]
    /\ InitCall
    /\ satIn = NoSat
    /\ satOut = None
    /\ pfArgs \in ArgLists
    /\ pfOut = None
    /\ InitIngested
    /\ InitConstructed

SpecParse == InitParse /\ [][NextParse]_vars

\* ---------------------------------------------------- complete, one request
\* strings of this section are sequences of characters
Anthropic == << "a", "n", "t", "h", "r", "o", "p", "i", "c" >>
OpenAi == << "o", "p", "e", "n", "a", "i" >>
Featherless == << "f", "e", "a", "t", "h", "e", "r", "l", "e", "s", "s" >>
OpenRouter == << "o", "p", "e", "n", "r", "o", "u", "t", "e", "r" >>
Atlas == << "a", "t", "l", "a", "s" >>
ModelGpt == << "g", "p", "t" >>
UrlLocal == << "h", "t", "t", "p", ":", "/", "/", "l", "o", "c", "a", "l", "h", "o", "s", "t", "/", "c", "o", "m", "p", "l", "e", "t", "i", "o", "n" >>
UrlOpenAi == << "h", "t", "t", "p", "s", ":", "/", "/", "a", "p", "i", ".", "o", "p", "e", "n", "a", "i", ".", "c", "o", "m", "/", "v", "1" >>
UrlAnthropic == << "h", "t", "t", "p", "s", ":", "/", "/", "a", "p", "i", ".", "a", "n", "t", "h", "r", "o", "p", "i", "c", ".", "c", "o", "m" >>
UrlFeatherless == << "h", "t", "t", "p", "s", ":", "/", "/", "f", "e", "a", "t", "h", "e", "r", "l", "e", "s", "s", ".", "a", "i" >>
UrlOpenRouter == << "h", "t", "t", "p", "s", ":", "/", "/", "o", "p", "e", "n", "r", "o", "u", "t", "e", "r", ".", "a", "i" >>
UrlAtlas == << "h", "t", "t", "p", ":", "/", "/", "a", "t", "l", "a", "s", ".", "l", "o", "c", "a", "l" >>
UrlUpperCase == << "h", "t", "t", "p", "s", ":", "/", "/", "a", "p", "i", ".", "O", "p", "e", "n", "A", "I", ".", "c", "o", "m" >>
UrlAtlasInPath == << "h", "t", "t", "p", ":", "/", "/", "l", "o", "c", "a", "l", "h", "o", "s", "t", "/", "a", "t", "l", "a", "s", "e", "s" >>
UrlOther == << "h", "t", "t", "p", "s", ":", "/", "/", "a", "p", "i", ".", "m", "i", "s", "t", "r", "a", "l", ".", "a", "i" >>

\* a JSON object
Obj(props) == [t |-> "obj", props |-> props]

\* v === null || v === undefined
Nullish(v) == v.t \in {"undefined", "null"}

\* the truthiness of a value in a condition
Truthy(v) ==
    /\ ~Nullish(v)
    /\ ~(v.t = "str" /\ v.s = <<>>)
    /\ ~(v.t = "num" /\ v.n = 0)

\* v[name] for a v that is not null or undefined
Prop(v, name) ==
    IF v.t = "obj" /\ name \in DOMAIN v.props THEN v.props[name] ELSE Undefined

\* v?.name
OptProp(v, name) == IF Nullish(v) THEN Undefined ELSE Prop(v, name)

\* v[0] for a v that is not null or undefined
First(v) ==
    IF v.t = "arr" /\ Len(v.a) > 0 THEN v.a[1]
    ELSE IF v.t = "str" /\ Len(v.s) > 0 THEN Str(<< v.s[1] >>)
    ELSE Undefined

\* v.trim()
TrimOf(v) ==
    IF v.t = "str" THEN Returned(Str(TrimChars(v.s))) ELSE Threw("TypeError")

\* complete: what it returns for the parsed body of a 2xx response
ResponseText(json) ==
    IF Nullish(json) THEN Threw("TypeError")
    ELSE LET choices == Prop(json, "choices")
             nested == OptProp(OptProp(First(choices), "message"), "content")
             flat == Prop(json, "content")
         IN  IF Truthy(choices) /\ Truthy(nested) THEN TrimOf(nested)
             ELSE IF Truthy(flat) THEN TrimOf(flat)
             ELSE Returned(Str(<<>>))

\* s.includes(frag)
Includes(s, frag) ==
    \E i \in 1..(Len(s) - Len(frag) + 1) : SubSeq(s, i, i + Len(frag) - 1) = frag

\* the URL test that picks the body of the request
ChatStyle(url) ==
    \/ Includes(url, Anthropic)
    \/ Includes(url, OpenAi)
    \/ Includes(url, Featherless)
    \/ Includes(url, OpenRouter)
    \/ Includes(url, Atlas)

\* TRUE for the chat-style body, FALSE for the flat one
RequestShape(url) == ChatStyle(url)

\* this.config.completionParams.<name>
Param(params, name) == IF name \in DOMAIN params THEN params[name] ELSE Undefined

\* JSON.stringify of an object: a property whose value is undefined is left out
Stringify(obj) == [ k \in { n \in DOMAIN obj : obj[n].t # "undefined" } |-> obj[k] ]

\* complete: the body of the request
RequestBody(url, params, prompt) ==
    IF RequestShape(url)
    THEN Stringify([ model |-> Param(params, "modelName"),
                     messages |-> Arr(<< Obj([ role |-> Str("user"),
                                               content |-> prompt ]) >>),
                     max_tokens |-> Param(params, "max_tokens"),
                     temperature |-> Param(params, "temperature") ])
    ELSE Stringify([ prompt |-> prompt,
                     temperature |-> Param(params, "temperature"),
                     n_predict |-> Param(params, "n_predict") ])

\* complete: the headers of the request
RequestHeaders(apiKey) ==
    IF apiKey # "" THEN { "Content-Type", "Authorization" } ELSE { "Content-Type" }

\* completionParams as the constructor leaves it
DefaultParams ==
    [ temperature |-> Num(0), n_predict |-> Num(128), max_tokens |-> Num(500),
      modelName |-> Str(<<>>) ]

\* completionParams as the constructor, updateConfig({completionParams:
\* {modelName: "gpt"}}) and an update naming all four leave it
ParamStates ==
    { DefaultParams,
      [ modelName |-> Str(ModelGpt) ],
      [ temperature |-> Num(70), n_predict |-> Num(64), max_tokens |-> Num(100),
        modelName |-> Str(ModelGpt) ] }

CompletionUrls ==
    { <<>>, UrlLocal, UrlOpenAi, UrlAnthropic, UrlFeatherless, UrlOpenRouter,
      UrlAtlas, UrlUpperCase, UrlAtlasInPath, UrlOther }

\* the values a provider may put where the text is expected
ContentValues ==
    { Undefined, Null, Str(<<>>), Str(<< " ", "o", "k", " " >>), Num(42),
      Arr(<< Obj([ type |-> Str("text"), text |-> Str(<< "o", "k" >>) ]) >>) }

NestedValues == { Undefined, Str(<<>>), Str(<< "h", "i", " " >>), Num(7) }

ChoicesValues ==
    { Undefined, Null, Arr(<<>>), Arr(<< Null >>), Arr(<< Obj([ index |-> Num(0) ]) >>) }
    \cup { Arr(<< Obj([ message |-> Obj([ content |-> v ]) ]) >>) : v \in NestedValues }

\* the parsed bodies of 2xx responses
JsonBodies ==
    { Null, Num(5) }
    \cup { Obj([ choices |-> c, content |-> f ]) : c \in ChoicesValues, f \in ContentValues }

\* what the completion provider answers to the one request
CompletionAnswers ==
    { [ ok |-> FALSE, status |-> 500 ], [ ok |-> TRUE, parses |-> FALSE ] }
    \cup { [ ok |-> TRUE, parses |-> TRUE, json |-> j ] : j \in JsonBodies }

\* async complete(prompt): up to the fetch
CompleteFetch ==
    /\ compIn # NoComp
    /\ compOut = None
    /\ compOut' =
          IF compIn.url = <<>>
          THEN [ sent |-> <<>>, result |-> Returned(compIn.prompt) ]
          ELSE [ sent |-> << [ url |-> compIn.url,
                               headers |-> RequestHeaders(compIn.apiKey),
                               body |-> RequestBody(compIn.url, compIn.params,
                                                    compIn.prompt) ] >>,
                 result |-> None ]
    /\ UNCHANGED << store, config, pc, call, fileIdx, chunks, qVec, scored,
                    searchOut, queryOut, embedCalls, completeCalls, satIn, satOut,
                    pfArgs, pfOut, ing, ingOut, ingests, written, latest, names,
                    ctorIn, ctorOut, completeOut, compIn, embIn, embOut,
                    cfgVars, splVars >>

\* complete: the response arrives
CompleteParse ==
    /\ compOut # None
    /\ compOut.result = None
    /\ compOut' =
          [ compOut EXCEPT !.result =
                IF ~compIn.reply.ok THEN Threw("Completion request failed")
                ELSE IF ~compIn.reply.parses THEN Threw("SyntaxError")
                ELSE ResponseText(compIn.reply.json) ]
    /\ UNCHANGED << store, config, pc, call, fileIdx, chunks, qVec, scored,
                    searchOut, queryOut, embedCalls, completeCalls, satIn, satOut,
                    pfArgs, pfOut, ing, ingOut, ingests, written, latest, names,
                    ctorIn, ctorOut, completeOut, compIn, embIn, embOut,
                    cfgVars, splVars >>

NextComplete == CompleteFetch \/ CompleteParse

\* one engine at rest; every URL, completionParams and answer
InitComplete ==
    /\ store = <<>>
    /\ config = [ minSimilarityThreshold |-> 40, maxDistance |-> 80,
                  maxResults |-> 3, completionUrl |-> NoUrl,
                  chunkSize |-> DefaultChunkSize ]
    /\ InitCall
    /\ satIn = NoSat
    /\ satOut = None
    /\ pfArgs = <<>>
    /\ pfOut = None
    /\ InitIngested
    /\ ctorIn = NoCtor
    /\ ctorOut = None
    /\ completeOut = None
    /\ compIn \in [ url : CompletionUrls, apiKey : {"", "secret"},
                    params : ParamStates, prompt : { Str(<< "h", "i" >>) },
                    reply : CompletionAnswers ]
    /\ compOut = None
    /\ InitEmbedIdle
    /\ InitSide

SpecComplete == InitComplete /\ [][NextComplete]_vars

\* ------------------------------------------------------- embed, one request
\* Number(v) for an element handed to new Float32Array(...): a number is
\* itself, null is 0, a string of one digit is that digit, anything else NaN
ToFloat(v) ==
    IF v.t = "num" THEN v
    ELSE IF v.t = "null" THEN Num(0)
    ELSE IF v.t = "str" /\ v.s = << "7" >> THEN Num(7)
    ELSE [t |-> "nan"]

\* new Float32Array(a)
Float32Array(a) == [ k \in 1..Len(a) |-> ToFloat(a[k]) ]

\* embed: what it returns for the parsed body of a 2xx response
EmbeddingOf(json) ==
    IF Nullish(json) THEN Threw("TypeError")
    ELSE LET data == Prop(json, "data")
         IN  IF \/ ~Truthy(data)
                \/ data.t # "arr"
                \/ ~Truthy(OptProp(First(data), "embedding"))
                \/ OptProp(First(data), "embedding").t # "arr"
             THEN Threw("Embedding output malformed or missing")
             ELSE Returned(Float32Array(Prop(First(data), "embedding").a))

\* the values a provider may put where the vector is expected
EmbeddingValues ==
    { Undefined, Null, Num(5), Str(<< "a" >>), Arr(<<>>),
      Arr(<< Num(3), Num(0) >>), Arr(<< Str(<< "a" >>), Num(1) >>),
      Arr(<< Null, Num(1) >>), Arr(<< Str(<< "7" >>) >>),
      Arr(<< Arr(<< Num(1) >>) >>) }

\* the parsed bodies of 2xx responses
EmbedBodies ==
    { Null, Num(5), Obj([ data |-> Undefined ]), Obj([ data |-> Str(<< "x" >>) ]),
      Obj([ data |-> Arr(<<>>) ]), Obj([ data |-> Arr(<< Null >>) ]) }
    \cup { Obj([ data |-> Arr(<< Obj([ embedding |-> e ]) >>) ]) : e \in EmbeddingValues }

\* what the embedding provider answers to the one request
EmbedAnswers ==
    { [ ok |-> FALSE, status |-> st, text |-> tx ] :
            st \in {401, 500}, tx \in {"", "overloaded"} }
    \cup { [ ok |-> TRUE, parses |-> FALSE ] }
    \cup { [ ok |-> TRUE, parses |-> TRUE, json |-> j ] : j \in EmbedBodies }

\* async embed(text): up to the fetch
EmbedFetch ==
    /\ embIn # NoEmbed
    /\ embOut = None
    /\ embOut' = [ sent |-> << [ headers |-> RequestHeaders(embIn.apiKey),
                                 body |-> [ input |-> embIn.text ] ] >>,
                   result |-> None ]
    /\ UNCHANGED << store, config, pc, call, fileIdx, chunks, qVec, scored,
                    searchOut, queryOut, embedCalls, completeCalls, satIn, satOut,
                    pfArgs, pfOut, ing, ingOut, ingests, written, latest, names,
                    ctorIn, ctorOut, completeOut, compIn, compOut, embIn,
                    cfgVars, splVars >>

\* embed: the response arrives
EmbedParse ==
    /\ embOut # None
    /\ embOut.result = None
    /\ embOut' =
          [ embOut EXCEPT !.result =
                IF ~embIn.reply.ok
                THEN Threw([ msg |-> "Embedding request failed",
                             status |-> embIn.reply.status,
                             text |-> embIn.reply.text ])
                ELSE IF ~embIn.reply.parses THEN Threw("SyntaxError")
                ELSE EmbeddingOf(embIn.reply.json) ]
    /\ UNCHANGED << store, config, pc, call, fileIdx, chunks, qVec, scored,
                    searchOut, queryOut, embedCalls, completeCalls, satIn, satOut,
                    pfArgs, pfOut, ing, ingOut, ingests, written, latest, names,
                    ctorIn, ctorOut, completeOut, compIn, compOut, embIn,
                    cfgVars, splVars >>

NextEmbed == EmbedFetch \/ EmbedParse

\* one engine at rest; every text, key and answer
InitEmbed ==
    /\ store = <<>>
    /\ config = [ minSimilarityThreshold |-> 40, maxDistance |-> 80,
                  maxResults |-> 3, completionUrl |-> NoUrl,
                  chunkSize |-> DefaultChunkSize ]
    /\ InitCall
    /\ satIn = NoSat
    /\ satOut = None
    /\ pfArgs = <<>>
    /\ pfOut = None
    /\ InitIngested
    /\ ctorIn = NoCtor
    /\ ctorOut = None
    /\ completeOut = None
    /\ compIn = NoComp
    /\ compOut = None
    /\ embIn \in [ text : { << "h", "i" >>, << "c", "a", "t", "s" >> },
                   apiKey : {"", "secret"}, reply : EmbedAnswers ]
    /\ embOut = None
    /\ InitSide

SpecEmbed == InitEmbed /\ [][NextEmbed]_vars

\* -------------------------------------------------- updateConfig, getConfig
(***************************************************************************)
(* this.config is an object whose completionParams property refers to a    *)
(* second object.  An object of parameters is kept in heap and referred to *)
(* by its address, so that two configuration objects can share one.        *)
(***************************************************************************)
\* the variables of the engine's calls and of the operations modelled apart
engineVars == << store, config, pc, call, fileIdx, chunks, qVec, scored, searchOut,
                 queryOut, embedCalls, completeCalls, satIn, satOut, pfArgs, pfOut,
                 ing, ingOut, ingests, written, latest, names, ctorIn, ctorOut,
                 completeOut, compIn, compOut, embIn, embOut >>

\* the most calls on the configuration one run makes
MaxConfigCalls == 4

TopFields == {"chunkSize", "maxResults"}
ParamFields == {"temperature", "n_predict", "max_tokens", "modelName"}

\* { ...a, ...b }
Spread(a, b) ==
    [ k \in DOMAIN a \cup DOMAIN b |-> IF k \in DOMAIN b THEN b[k] ELSE a[k] ]

\* the updates a caller passes: some top-level fields and, or, a
\* completionParams object naming some of its fields
TopUpdates == UNION { [ D -> {1, 5} ] : D \in SUBSET TopFields }
ParamUpdates ==
    { [ modelName |-> Str(ModelGpt) ],
      [ temperature |-> Num(70) ],
      [ temperature |-> Num(70), n_predict |-> Num(64), max_tokens |-> Num(100),
        modelName |-> Str(ModelGpt) ] }
ConfigUpdates ==
    [ top : TopUpdates, params : {NotGiven} \cup { Opt(r) : r \in ParamUpdates } ]

\* updateConfig(updates): this.config = { ...this.config, ...updates }; the
\* completionParams object of the update takes the place of the engine's
UpdateConfigObject(u) ==
    /\ cfgCall.n < MaxConfigCalls
    /\ IF u.params.given
       THEN /\ heap' = Append(heap, u.params.v)
            /\ thisConfig' = Spread(thisConfig,
                                    Spread(u.top, [completionParams |-> Len(heap) + 1]))
       ELSE /\ heap' = heap
            /\ thisConfig' = Spread(thisConfig, u.top)
    /\ cfgCall' = [op |-> "updateConfig", n |-> cfgCall.n + 1, u |-> u]
    /\ UNCHANGED << gotConfig, engineVars, splVars >>

\* getConfig(): return { ...this.config }; the copy refers to the engine's
\* completionParams object
GetConfig ==
    /\ cfgCall.n < MaxConfigCalls
    /\ gotConfig' = Opt(Spread(<<>>, thisConfig))
    /\ cfgCall' = [op |-> "getConfig", n |-> cfgCall.n + 1, u |-> NoUpdate]
    /\ UNCHANGED << thisConfig, heap, engineVars, splVars >>

\* the caller assigns to a top-level property of the object it got
MutateReturned(field, value) ==
    /\ cfgCall.n < MaxConfigCalls
    /\ gotConfig.given
    /\ gotConfig' = Opt([gotConfig.v EXCEPT ![field] = value])
    /\ cfgCall' = [op |-> "mutate", n |-> cfgCall.n + 1, u |-> NoUpdate]
    /\ UNCHANGED << thisConfig, heap, engineVars, splVars >>

\* the caller assigns to a property of the completionParams of the object
\* it got
MutateReturnedParams(name, value) ==
    /\ cfgCall.n < MaxConfigCalls
    /\ gotConfig.given
    /\ heap' = [heap EXCEPT ![gotConfig.v.completionParams] =
                                Spread(@, [ k \in {name} |-> value ])]
    /\ cfgCall' = [op |-> "mutate", n |-> cfgCall.n + 1, u |-> NoUpdate]
    /\ UNCHANGED << thisConfig, gotConfig, engineVars, splVars >>

\* the engine's configuration as a reader of this.config finds it
EngineConfig ==
    [ top |-> [ k \in TopFields |-> thisConfig[k] ],
      params |-> [ f \in ParamFields |->
                       Param(heap[thisConfig.completionParams], f) ] ]

NextConfig ==
    \/ \E u \in ConfigUpdates : UpdateConfigObject(u)
    \/ GetConfig
    \/ MutateReturned("chunkSize", 9)
    \/ MutateReturnedParams("temperature", Num(99))

\* an engine as the constructor leaves it, nothing else in flight
InitEngineIdle ==
    /\ store = <<>>
    /\ config = [ minSimilarityThreshold |-> 40, maxDistance |-> 80,
                  maxResults |-> 3, completionUrl |-> NoUrl,
                  chunkSize |-> DefaultChunkSize ]
    /\ InitCall
    /\ satIn = NoSat
    /\ satOut = None
    /\ pfArgs = <<>>
    /\ pfOut = None
    /\ InitIngested
    /\ ctorIn = NoCtor
    /\ ctorOut = None
    /\ completeOut = None
    /\ compIn = NoComp
    /\ compOut = None
    /\ InitEmbedIdle

InitConfig ==
    /\ InitEngineIdle
    /\ InitSplinterIdle
    /\ thisConfig = [ chunkSize |-> DefaultChunkSize, maxResults |-> 3,
                      completionParams |-> 1 ]
    /\ heap = << DefaultParams >>
    /\ gotConfig = NotGiven
    /\ cfgCall = NoConfigCall

SpecConfig == InitConfig /\ [][NextConfig]_vars

\* ------------------------------------------------------------------ Splinter
(***************************************************************************)
(* The functions of libsplinter take no handle: splinter_set, splinter_get *)
(* and splinter_close act on the one store the process has mapped.  Every  *)
(* Splinter instance keeps its own isOpen.                                 *)
(***************************************************************************)
\* the most Splinter instances one run creates
MaxInstances == 3

\* what the native splinter_open, splinter_create, ... may return
NativeResults == {0, -1}

\* the static methods that make an instance
Openers == {"create", "open", "openOrCreate", "createOrOpen"}

\* the methods that start with this.checkOpen()
DataOps == {"set", "get", "list", "poll"}

Instances == 1..Len(isOpen)

\* static create, open, openOrCreate, createOrOpen: the native call, then
\* a new instance with isOpen = true, or an error
SplinterOpen(how, result) ==
    /\ Len(isOpen) < MaxInstances
    /\ lastNative' = [op |-> how, by |-> Len(isOpen) + 1, live |-> nativeLive]
    /\ IF result = 0
       THEN /\ nativeLive' = TRUE
            /\ isOpen' = Append(isOpen, TRUE)
            /\ nativeCloses' = Append(nativeCloses, 0)
            /\ splOut' = Returned("Splinter")
       ELSE /\ splOut' = Threw("Failed to open splinter store")
            /\ UNCHANGED << nativeLive, isOpen, nativeCloses >>
    /\ UNCHANGED << engineVars, cfgVars >>

\* set, get, list, poll of instance i: checkOpen, then the native call; what
\* the library does without a mapped store is not the class's to decide
SplinterCall(op, i, failed) ==
    /\ IF ~isOpen[i]
       THEN /\ splOut' = Threw("Splinter store is not open")
            /\ UNCHANGED lastNative
       ELSE /\ lastNative' = [op |-> op, by |-> i, live |-> nativeLive]
            /\ splOut' = IF ~nativeLive /\ failed THEN Threw(op) ELSE Returned(op)
    /\ UNCHANGED << isOpen, nativeLive, nativeCloses, engineVars, cfgVars >>

\* close() of instance i
SplinterClose(i) ==
    /\ IF isOpen[i]
       THEN /\ lastNative' = [op |-> "close", by |-> i, live |-> nativeLive]
            /\ nativeLive' = FALSE
            /\ nativeCloses' = [nativeCloses EXCEPT ![i] = @ + 1]
            /\ isOpen' = [isOpen EXCEPT ![i] = FALSE]
       ELSE UNCHANGED << lastNative, nativeLive, nativeCloses, isOpen >>
    /\ splOut' = Returned("void")
    /\ UNCHANGED << engineVars, cfgVars >>

\* GET /splinter-check: Splinter.open, conn.set, conn.getString; the
\* instance is not closed
SplinterCheck(result) ==
    /\ Len(isOpen) < MaxInstances
    /\ IF result = 0
       THEN /\ nativeLive' = TRUE
            /\ isOpen' = Append(isOpen, TRUE)
            /\ nativeCloses' = Append(nativeCloses, 0)
            /\ lastNative' = [op |-> "get", by |-> Len(isOpen) + 1, live |-> TRUE]
            /\ splOut' = Returned("200")
       ELSE /\ lastNative' = [op |-> "open", by |-> Len(isOpen) + 1, live |-> nativeLive]
            /\ splOut' = Threw("Failed to open splinter store")
            /\ UNCHANGED << nativeLive, isOpen, nativeCloses >>
    /\ UNCHANGED << engineVars, cfgVars >>

NextSplinter ==
    \/ \E how \in Openers, r \in NativeResults : SplinterOpen(how, r)
    \/ \E op \in DataOps, i \in Instances, failed \in BOOLEAN : SplinterCall(op, i, failed)
    \/ \E i \in Instances : SplinterClose(i)
    \/ \E r \in NativeResults : SplinterCheck(r)

InitSplinter ==
    /\ InitEngineIdle
    /\ InitConfigIdle
    /\ InitSplinterIdle

SpecSplinter == InitSplinter /\ [][NextSplinter]_vars

\* ------------------------------------------------- ingest and search specs
\* one engine with an empty topic; chunkSize is 1 or 2
InitIngest ==
    /\ store = <<>>
    /\ config \in [ minSimilarityThreshold : {40}, maxDistance : {400},
                    maxResults : {MaxResultsCap}, completionUrl : {NoUrl},
                    chunkSize : ChunkSizeValues ]
    /\ InitCall
    /\ InitExt
    /\ satIn = NoSat
    /\ satOut = None

\* the steps every call takes once it has started
CallSteps ==
    \/ IngestRead
    \/ \E r \in IngestReplies : IngestEmbedFails(r)
    \/ \E r \in IngestReplies : IngestEmbedded(r)
    \/ IngestTruncate
    \/ IngestWrite
    \/ ReadFile
    \/ ReturnEmpty
    \/ EmbedRequest
    \/ \E r \in EmbedReplies : EmbedFails(r)
    \/ \E r \in EmbedReplies : ScoreAndReturn(r)
    \/ SearchReturn
    \/ \E size \in ChunkSizeValues : UpdateConfig("chunkSize", size)

\* ingest and search called one after the other
NextIngest ==
    \/ \E d \in Docs : pc = "idle" /\ IngestStart(d)
    \/ ing.pc = "idle" /\ SearchStart(<<>>)
    \/ CallSteps

SpecIngest == InitIngest /\ [][NextIngest]_vars

\* the chunk sizes of the loop specification: the constructor and
\* updateConfig take any number
LoopChunkSizes == {-1, 0, 1, 2}

\* one engine with an empty topic and any of these chunk sizes
InitLoop ==
    /\ store = <<>>
    /\ config \in [ minSimilarityThreshold : {40}, maxDistance : {400},
                    maxResults : {MaxResultsCap}, completionUrl : {NoUrl},
                    chunkSize : LoopChunkSizes ]
    /\ InitCall
    /\ InitExt
    /\ satIn = NoSat
    /\ satOut = None

\* ingest calls one after the other, each followed for MaxEmbeds requests
NextLoop ==
    \/ \E d \in Docs : IngestStart(d)
    \/ IngestRead
    \/ \E r \in IngestReplies : IngestEmbedFails(r)
    \/ \E r \in IngestReplies : ing.embeds < MaxEmbeds /\ IngestEmbedded(r)
    \/ IngestTruncate
    \/ IngestWrite
    \/ \E size \in LoopChunkSizes : UpdateConfig("chunkSize", size)

SpecLoop == InitLoop /\ [][NextLoop]_vars

\* ingest and search called at any time, also while the other is suspended
NextRace ==
    \/ \E d \in Docs : IngestStart(d)
    \/ SearchStart(<<>>)
    \/ CallSteps

SpecRace == InitIngest /\ [][NextRace]_vars

\* ------------------------------------- one call with updates in its flight
\* the configuration the engine is constructed with
StartConfig ==
    [ minSimilarityThreshold |-> 40, maxDistance |-> 400, maxResults |-> 1,
      completionUrl |-> NoUrl, chunkSize |-> DefaultChunkSize ]

InitSnapshot ==
    /\ store \in Stores
    /\ config = StartConfig
    /\ InitCall
    /\ InitExt
    /\ satIn = NoSat
    /\ satOut = None

\* the first call of the engine, and updateConfig only while it is suspended
NextSnapshot ==
    \/ \E f \in FilterSets : call = NoCall /\ SearchStart(f)
    \/ \E f \in FilterSets, raw \in BOOLEAN : call = NoCall /\ QueryStart(f, raw)
    \/ ReadFile
    \/ ReturnEmpty
    \/ EmbedRequest
    \/ \E r \in EmbedReplies : EmbedFails(r)
    \/ \E r \in EmbedReplies : ScoreAndReturn(r)
    \/ SearchReturn
    \/ QueryResume
    \/ \E r \in CompletionReplies : CompleteResponse(r)
    \/ QueryReturn
    \/ \E field \in ConfigFields : \E value \in FieldValues(field) :
            pc # "idle" /\ UpdateConfig(field, value)

SpecSnapshot == InitSnapshot /\ [][NextSnapshot]_vars

\* ------------------------------------------------------ constructor spec
NextCtor == Constructor

\* every combination of options, environment and arguments
InitCtor ==
    /\ store = <<>>
    /\ config = StartConfig
    /\ InitCall
    /\ satIn = NoSat
    /\ satOut = None
    /\ pfArgs = <<>>
    /\ pfOut = None
    /\ InitIngested
    /\ ctorIn \in [ options : CtorOptions, env : CtorEnvs, args : CtorArgs ]
    /\ ctorOut = None
    /\ completeOut = None
    /\ InitAux

SpecCtor == InitCtor /\ [][NextCtor]_vars

\* ------------------------------------------ search over a corrupt chunk store
InitCorrupt ==
    /\ store \in CorruptStores
    /\ config = [ StartConfig EXCEPT !.maxResults = MaxResultsCap ]
    /\ InitCall
    /\ InitExt
    /\ satIn = NoSat
    /\ satOut = None

\* the first search of the engine
NextSearchOnce ==
    \/ \E f \in FilterSets : call = NoCall /\ SearchStart(f)
    \/ ReadFile
    \/ ReturnEmpty
    \/ EmbedRequest
    \/ \E r \in EmbedReplies : EmbedFails(r)
    \/ \E r \in EmbedReplies : ScoreAndReturn(r)
    \/ SearchReturn

SpecCorrupt == InitCorrupt /\ [][NextSearchOnce]_vars

\* ------------------------------------------------- search over equal scores
\* every order of one to four of the chunks, in one file or in two
InitTies ==
    /\ store \in { << f >> : f \in TiedFiles }
                \cup { << SubSeq(f, 1, 1), SubSeq(f, 2, Len(f)) >> :
                            f \in { g \in TiedFiles : Len(g) > 1 } }
    /\ config \in { [ StartConfig EXCEPT !.maxResults = m ] : m \in 1..3 }
    /\ InitCall
    /\ InitExt
    /\ satIn = NoSat
    /\ satOut = None

SpecTies == InitTies /\ [][NextSearchOnce]_vars

\* ================================================================== claims
RECURSIVE Flatten(_)
\* every record of every file, in enumeration order then line order
Flatten(files) ==
    IF files = <<>> THEN <<>> ELSE Head(files) \o Flatten(Tail(files))

StoredChunks == Flatten(store)

\* every Filter of the set evaluates true on the chunk's metadata
SurvivesAll(c, filters) ==
    \A i \in 1..Len(filters) :
        satisfies(IF c.meta = Undefined THEN EmptyMeta ELSE c.meta, filters[i])

Survivors(filters) == SelectSeq(StoredChunks, LAMBDA c : SurvivesAll(c, filters))

\* the walk of the call in flight (or of the last call) ran to its end
LoadFinished == call.op # "none" /\ fileIdx > Len(store)

\* C1: whenever no stored chunk of the topic survives the filter set (a
\* topic with zero stored chunks included), search returns the empty list
\* and no embedding request is issued during the call.
C1_NoSurvivorNoEmbedding ==
    (call.op # "none" /\ Survivors(call.filters) = <<>>) =>
        /\ embedCalls = 0
        /\ pc \notin {"walking", "embedding"} => searchOut = Returned(<<>>)

\* C2: when search returns no chunks, query does not raise and issues no
\* completion request; it returns the fixed message (string mode) or a
\* structure with an empty chunks list (raw mode), whatever completionUrl is.
C2_EmptySearchQuery ==
    (call.op = "query" /\ searchOut = Returned(<<>>)) =>
        /\ completeCalls = 0
        /\ pc # "completing"
        /\ pc \in {"queryDone", "idle"} =>
              queryOut = Returned(IF call.returnRaw THEN [chunks |-> <<>>]
                                  ELSE NoChunksMessage)

\* C2 witness: a query in string mode, with a completion endpoint configured,
\* whose search embedded the question and kept nothing, has returned.
C2_Witness ==
    /\ pc = "queryDone"
    /\ ~call.returnRaw
    /\ config.completionUrl = LocalUrl
    /\ embedCalls = 1
    /\ searchOut = Returned(<<>>)
    /\ queryOut = Returned(NoChunksMessage)

\* search has just returned a list after embedding the question
SearchReturnedScored ==
    pc = "searchDone" /\ searchOut.kind = "ok" /\ qVec # <<>>

\* C3: every chunk search returns has cosine similarity >=
\* minSimilarityThreshold and Euclidean distance <= maxDistance to the
\* question vector (both recomputed here from the embedding and qVec).
C3_ReturnedWithinThresholds ==
    SearchReturnedScored =>
        \A i \in 1..Len(searchOut.value) :
            LET e == searchOut.value[i].embedding
                dot == DotN(e, qVec, Len(e))
                norms == Hypot(e) * Hypot(qVec)
                sq == SumSqDiffN(e, qVec, Len(e))
            IN  /\ Len(e) = Len(qVec)
                /\ norms > 0
                /\ 100 * dot >= config.minSimilarityThreshold * norms
                /\ 10000 * sq <= config.maxDistance * config.maxDistance

\* C3 witness: search returned a chunk and dropped a candidate whose
\* similarity passed and whose distance did not.
C3_Witness ==
    /\ SearchReturnedScored
    /\ Len(searchOut.value) >= 1
    /\ \E i \in 1..Len(scored) :
          /\ ~IsNaNScore(scored[i].score)
          /\ 100 * scored[i].score.num >= config.minSimilarityThreshold * scored[i].score.den
          /\ 10000 * scored[i].distance.sq > config.maxDistance * config.maxDistance

\* a >= b on scores, a NaN score ranking below every number
ScoreGeq(a, b) ==
    IsNaNScore(b) \/ (~IsNaNScore(a) /\ a.num * b.den >= b.num * a.den)

RECURSIVE InsertRanked(_, _)
\* x placed after every element that ranks at least as high
InsertRanked(x, ranked) ==
    IF ranked = <<>> THEN <<x>>
    ELSE IF ScoreGeq(Head(ranked).score, x.score)
         THEN <<Head(ranked)>> \o InsertRanked(x, Tail(ranked))
         ELSE <<x>> \o ranked

RECURSIVE RankFrom(_, _, _)
RankFrom(w, i, ranked) ==
    IF i > Len(w) THEN ranked ELSE RankFrom(w, i + 1, InsertRanked(w[i], ranked))

\* the candidates in descending similarity order, ties in load order
RankedBySimilarity(w) == RankFrom(w, 1, <<>>)

\* C4: the result of search is exactly the threshold-passing subset of the
\* maxResults highest-similarity surviving chunks, in descending similarity
\* order (the cut is taken before the threshold filter).
C4_TopThenThreshold ==
    SearchReturnedScored =>
        LET ranked == RankedBySimilarity(ScoreChunks(chunks, qVec))
            top == SubSeq(ranked, 1, IF config.maxResults < Len(ranked)
                                     THEN config.maxResults ELSE Len(ranked))
            passing == SelectSeq(top, LAMBDA c :
                          /\ c.score.den > 0
                          /\ 100 * c.score.num >= config.minSimilarityThreshold * c.score.den
                          /\ 10000 * c.distance.sq <= config.maxDistance * config.maxDistance)
        IN  /\ Len(searchOut.value) <= config.maxResults
            /\ searchOut.value = passing

\* C5: a chunk within the top maxResults whose similarity equals
\* minSimilarityThreshold exactly and whose distance equals maxDistance
\* exactly is in the search result.
C5_InclusiveBoundaries ==
    SearchReturnedScored =>
        \A i \in 1..Len(scored) :
            ( /\ scored[i].score.den > 0
              /\ 100 * scored[i].score.num = config.minSimilarityThreshold * scored[i].score.den
              /\ 10000 * scored[i].distance.sq = config.maxDistance * config.maxDistance )
            => \E j \in 1..Len(searchOut.value) : searchOut.value[j] = scored[i]

\* C5 witness: search returned a chunk that sits on both boundaries.
C5_Witness ==
    /\ SearchReturnedScored
    /\ \E j \in 1..Len(searchOut.value) :
          LET c == searchOut.value[j]
          IN  /\ c.score.den > 0
              /\ 100 * c.score.num = config.minSimilarityThreshold * c.score.den
              /\ 10000 * c.distance.sq = config.maxDistance * config.maxDistance

\* C6: a stored embedding and a question vector of different length make
\* both comparisons throw the dimension error, and search fails with it
\* instead of returning a result.
C6_DimensionMismatchFails ==
    (pc = "searchDone" /\ qVec # <<>>) =>
        \A i \in 1..Len(chunks) :
            Len(chunks[i].embedding) # Len(qVec) =>
                /\ cosineSimilarity(chunks[i].embedding, qVec) = DimensionMismatch
                /\ euclideanDistance(chunks[i].embedding, qVec) = DimensionMismatch
                /\ searchOut = Threw("Vectors must have the same dimension.")

\* C6 witness: search failed with the dimension error although another
\* surviving chunk had the question's dimension.
C6_Witness ==
    /\ pc = "searchDone"
    /\ qVec # <<>>
    /\ searchOut = Threw("Vectors must have the same dimension.")
    /\ \E i, j \in 1..Len(chunks) :
          /\ Len(chunks[i].embedding) # Len(qVec)
          /\ Len(chunks[j].embedding) = Len(qVec)

\* the chunks whose embedding has a non-zero norm
NonZeroNorm(cs) == SelectSeq(cs, LAMBDA c : Hypot(c.embedding) # 0)

\* C7: a zero-norm vector yields an undefined similarity and the chunk is
\* treated as excluded: it is not in the result, no undefined score reaches
\* the caller, and the result is the one search computes without it.
C7_ZeroNormExcluded ==
    SearchReturnedScored =>
        /\ \A i \in 1..Len(searchOut.value) :
              /\ Hypot(searchOut.value[i].embedding) # 0
              /\ ~IsNaNScore(searchOut.value[i].score)
        /\ searchOut.value =
              FilterRetained(TopCandidates(NonZeroNorm(chunks), qVec, config), config)

\* C8: the chunks that survive filtering are exactly the stored chunks on
\* which every Filter evaluates true; an empty filter set admits all, a
\* filter set with a Filter no chunk satisfies admits none.
C8_SurvivorsAreConjunction ==
    LoadFinished =>
        /\ chunks = Survivors(call.filters)
        /\ call.filters = <<>> => chunks = StoredChunks
        /\ ( \E i \in 1..Len(call.filters) : \A j \in 1..Len(StoredChunks) :
                ~SurvivesAll(StoredChunks[j], << call.filters[i] >>) )
           => chunks = <<>>

\* C8 witness: a walk under two filters ended with some chunks admitted and
\* some excluded.
C8_Witness ==
    /\ LoadFinished
    /\ Len(call.filters) = 2
    /\ Len(chunks) > 0
    /\ Len(chunks) < Len(StoredChunks)

\* the key is not in the metadata: no metadata, not an own key, or null
KeyMissing(meta, key) ==
    meta = Undefined \/ meta[key] = Absent \/ meta[key] = Null

\* C9: for every operator, a Filter whose key is absent from (or null in)
\* the chunk's metadata, or a chunk without metadata, evaluates false.
C9_FailsClosed ==
    (satOut.kind = "ok" /\ KeyMissing(satIn.meta, satIn.filter.key)) =>
        satOut.value = FALSE

IsNumeric(s) == ~ToNumber(s).nan
IsDate(s) == ~DateParse(s).nan

\* the comparison C10 describes: numeric when both sides are numbers,
\* otherwise by date when both sides are dates, otherwise excluded
OrderedAsClaimed(op, a, v) ==
    IF IsNumeric(a) /\ IsNumeric(v) THEN Compare(op, ToNumber(a).v, ToNumber(v).v)
    ELSE IF IsDate(a) /\ IsDate(v) THEN Compare(op, DateParse(a).v, DateParse(v).v)
    ELSE FALSE

\* C10: for >=, <=, > and <, satisfies compares numerically when both sides
\* parse as numbers (0 included), by date only otherwise, and excludes the
\* chunk when neither applies; a number is never compared with a timestamp.
C10_NumericThenDate ==
    ( /\ satOut.kind = "ok"
      /\ satIn.filter.op \in {">=", "<=", ">", "<"}
      /\ ~KeyMissing(satIn.meta, satIn.filter.key) )
    => satOut.value = OrderedAsClaimed(satIn.filter.op,
                                       ToStr(satIn.meta[satIn.filter.key]),
                                       ToStr(satIn.filter.value))

\* ---- parseFilters
OpTokenSet == { OpTokens[i] : i \in DOMAIN OpTokens }

\* the ways to read e as <key><op><value>: a non-empty key without blanks
\* and operator characters ends at k, the operator, possibly between
\* blanks, ends at j, and a non-empty value follows
Splits(e) ==
    { sp \in [k : 1..Len(e), j : 1..Len(e)] :
        /\ sp.k < sp.j /\ sp.j < Len(e)
        /\ \A i \in 1..sp.k : IsKeyChar(e[i])
        /\ TrimChars(SubSeq(e, sp.k + 1, sp.j)) \in OpTokenSet }

WellFormed(e) == Splits(e) # {}

\* f is the Filter of one reading of e
IsParseOf(f, e) ==
    \E sp \in Splits(e) :
        LET op == OpName(TrimChars(SubSeq(e, sp.k + 1, sp.j)))
            rest == SubSeq(e, sp.j + 1, Len(e))
            pieces == SplitOn(rest, ",", <<>>)
        IN  /\ f.key = SubSeq(e, 1, sp.k)
            /\ f.op = op
            /\ IF op = "in"
               THEN f.value = Arr([i \in 1..Len(pieces) |-> TrimChars(pieces[i])])
               ELSE f.value = Str(TrimChars(rest))

RECURSIVE Expressions(_)
\* the expressions an argument list carries, in argument order: the token
\* after each flag and the text after each "--filter="
Expressions(args) ==
    IF args = <<>> THEN <<>>
    ELSE IF Head(args) = FlagToken
    THEN IF Len(args) >= 2
         THEN << args[2] >> \o Expressions(SubSeq(args, 3, Len(args)))
         ELSE <<>>
    ELSE IF StartsWith(Head(args), FlagPrefix)
    THEN << SliceFrom(Head(args), Len(FlagPrefix)) >> \o Expressions(Tail(args))
    ELSE Expressions(Tail(args))

\* C11: parseFilters returns for every argument list (it never throws),
\* and the list it returns holds exactly one Filter per well-formed
\* expression, in argument order; malformed expressions and a trailing
\* flag without a token leave no Filter.
C11_MalformedDropped ==
    pfOut # None =>
        /\ pfOut.kind = "ok"
        /\ LET wf == SelectSeq(Expressions(pfArgs), WellFormed)
           IN  /\ Len(pfOut.value) = Len(wf)
               /\ \A j \in 1..Len(wf) : IsParseOf(pfOut.value[j], wf[j])

\* three expressions, one of them malformed, and a trailing flag
C11_Witness ==
    /\ pfOut # None
    /\ Len(pfArgs) = 7
    /\ pfArgs[7] = FlagToken
    /\ Len(Expressions(pfArgs)) = 3
    /\ Len(pfOut.value) = 2
    /\ pfOut.value[1].op = "in"
    /\ pfOut.value[2].op = "<="

\* C12: the two-token form gives the Filter list of the single-token form
\* of the same expression, and the token after the flag is read as the
\* expression only: it adds at most one Filter, the one of that token.
C12_SurfaceFormsAgree ==
    (pfOut # None /\ Len(pfArgs) = 2 /\ pfArgs[1] = FlagToken) =>
        /\ pfOut.value = parseFilters(<< FlagPrefix \o pfArgs[2] >>)
        /\ Len(pfOut.value) <= 1
        /\ Len(pfOut.value) = 1 => IsParseOf(pfOut.value[1], pfArgs[2])

\* the token after the flag has the single-token form itself
C12_Witness ==
    /\ pfOut # None
    /\ pfArgs = << FlagToken, FlagPrefix \o << "a", "=", "n" >> >>
    /\ Len(pfOut.value) = 1
    /\ pfOut.value[1].key = FlagToken
    /\ pfOut.value[1].value = Str(<< "a", "=", "n" >>)


\* ---- ingest
RECURSIVE Windows(_, _)
\* the consecutive windows of size lines, the last one holding the rest
Windows(lines, size) ==
    IF lines = <<>> THEN <<>>
    ELSE IF Len(lines) <= size THEN << lines >>
    ELSE << SubSeq(lines, 1, size) >> \o Windows(SubSeq(lines, size + 1, Len(lines)), size)

\* the loop of the ingest in flight has ended
ChunksBuilt == ing.pc \in {"opening", "writing"}

\* C13: the chunks ingest builds are the consecutive non-overlapping
\* windows of chunkSize lines of the document's non-empty trimmed lines,
\* in line order, the last one holding the remainder (so that no line is
\* lost or duplicated), and one embedding request was issued per chunk.
C13_FixedWindows ==
    ChunksBuilt =>
        /\ \E size \in ChunkSizeValues :
                Context(ing.chunks) = Windows(TrimmedNonEmpty(ing.body), size)
        /\ ing.embeds = Len(ing.chunks)

\* C14: between ingest calls, the chunk-store file of every document that
\* was ingested holds exactly the chunks its most recent successful ingest
\* built, in generation order, and nothing else.
C14_FileIsLatestIngest ==
    ing.pc = "idle" =>
        \A d \in DocPaths :
            latest[d].done => written[OutPath(d)] = File(latest[d].recs)

\* the document an enumerated file belongs to
DocOf(out) == CHOOSE d \in DocPaths : OutPath(d) = out

\* the chunks of the latest ingests, file by file in enumeration order
LatestChunks == Flatten([k \in 1..Len(names) |-> latest[DocOf(names[k])].recs])

\* search has read every file of the topic, or stopped reading on an error
WalkEnded ==
    /\ call.op = "search"
    /\ \/ pc = "walking" /\ fileIdx > Len(store)
       \/ pc \in {"embedding", "searchDone"}

\* C15: the file an ingest writes for a document of a topic is one search
\* enumerates for that topic, and with no filter search loads exactly the
\* chunks of the latest ingest of each document, unchanged and in line
\* order within each file.
C15_RoundTrip ==
    /\ \A d \in DocPaths :
            (latest[d].done /\ d[2] = SearchTopic) =>
                \E k \in 1..Len(names) : names[k] = OutPath(d)
    /\ (WalkEnded /\ call.filters = <<>>) =>
            /\ ~(searchOut.kind = "error" /\ searchOut.err = "SyntaxError")
            /\ chunks = LatestChunks

\* C16: a file search reads while ingest is writing it holds the complete
\* new content or the complete content it had before the write began.
C16_NoPartialRead ==
    [][ ( /\ pc = "walking"
          /\ fileIdx <= Len(store)
          /\ fileIdx' = fileIdx + 1 \/ pc' = "searchDone"
          /\ ing.pc = "writing"
          /\ names[fileIdx] = ing.out )
        => \/ store[fileIdx] = ing.chunks
           \/ ing.prev.there /\ store[fileIdx] = ing.prev.recs ]_vars


\* ---- configuration
\* C17: a call uses the configuration it started with.  The engine's only
\* call starts under StartConfig; whatever updateConfig does while the call
\* is suspended, search returns what the cut and the thresholds of
\* StartConfig give, and query completes exactly when StartConfig names a
\* completion endpoint.
C17_SnapshotAtStart ==
    /\ (searchOut.kind = "ok" /\ qVec # <<>>) =>
            searchOut.value =
                FilterRetained(TopCandidates(chunks, qVec, StartConfig), StartConfig)
    /\ (pc = "queryDone" /\ searchOut.kind = "ok" /\ Len(searchOut.value) > 0) =>
            (completeCalls > 0 <=> StartConfig.completionUrl # NoUrl)

\* ---- query
\* C19: with no completion endpoint, query in string mode returns the
\* prompt itself: the framing phrase, the retained chunks' texts in the
\* order search returned them between the delimiters, then
\* "Question: <question>" with nothing after the question.
C19_PromptVerbatim ==
    ( /\ pc = "queryDone"
      /\ queryOut.kind = "ok"
      /\ ~call.returnRaw
      /\ searchOut.kind = "ok"
      /\ Len(searchOut.value) > 0
      /\ completeCalls = 0 )
    => /\ queryOut.value.framing =
            "Use the information between the dashes \"---\" to answer the question that follows:"
       /\ queryOut.value.context = Context(searchOut.value)
       /\ queryOut.value.question = Question
       /\ queryOut.value.trailer = ""


\* ---- constructor
\* what the precedence rule gives: the explicit option, else the
\* environment's value, else the default
Resolved(explicit, fromEnv, default) ==
    IF explicit.given THEN explicit.v
    ELSE IF fromEnv.given THEN fromEnv.v
    ELSE default

\* the debug flag the environment gives, when it gives one
EnvDebug(env, args) ==
    IF "--debug" \in args \/ env.TIETO_DEBUG.given
    THEN Opt("--debug" \in args \/ env.TIETO_DEBUG.v = "1")
    ELSE NotGiven

ExplicitParam(options, name) ==
    IF options.completionParams.given THEN options.completionParams.v[name]
    ELSE NotGiven

\* C18: every field of a newly constructed engine, the completion
\* temperature and length parameters and the model name included, is the
\* explicit option when given, else the environment's value when there is
\* one, else the default.
C18_Precedence ==
    ctorOut # None =>
        LET o == ctorIn.options
            e == ctorIn.env
            c == ctorOut.value
        IN  /\ c.minSimilarityThreshold = Resolved(o.minSimilarityThreshold, NotGiven, 40)
            /\ c.maxDistance = Resolved(o.maxDistance, NotGiven, 80)
            /\ c.topicsDirectory = Resolved(o.topicsDirectory, NotGiven, "topics")
            /\ c.embeddingsDirectory = Resolved(o.embeddingsDirectory, NotGiven, "memory")
            /\ c.debug = Resolved(o.debug, EnvDebug(e, ctorIn.args), FALSE)
            /\ c.embeddingUrl =
                    Resolved(o.embeddingUrl, e.TIETO_EMBEDDING_URL, DefaultEmbeddingUrl)
            /\ c.completionUrl =
                    Resolved(o.completionUrl, e.TIETO_COMPLETION_URL, NoUrl)
            /\ c.apiKey = Resolved(o.apiKey, e.TIETO_API_KEY, "")
            /\ c.chunkSize = Resolved(o.chunkSize, NotGiven, 3)
            /\ c.maxResults = Resolved(o.maxResults, NotGiven, 3)
            /\ c.completionParams.modelName =
                    Resolved(ExplicitParam(o, "modelName"), NotGiven, "")
            /\ c.completionParams.temperature =
                    Resolved(ExplicitParam(o, "temperature"), NotGiven, 0)
            /\ c.completionParams.n_predict =
                    Resolved(ExplicitParam(o, "n_predict"), NotGiven, 128)
            /\ c.completionParams.max_tokens =
                    Resolved(ExplicitParam(o, "max_tokens"), NotGiven, 500)


NestedContent(json) ==
    OptProp(OptProp(First(OptProp(json, "choices")), "message"), "content")

\* the field a flat response carries its text in, Undefined without one
FlatContent(json) == OptProp(json, "content")

IsText(v) == v.t = "str" /\ v.s # <<>>

\* a 2xx response with a JSON body has been turned into complete's result
Parsed ==
    /\ compOut # None
    /\ compOut.sent # <<>>
    /\ compOut.result # None
    /\ compIn.reply.ok
    /\ compIn.reply.parses

\* C21: for a successful response complete returns the trimmed nested
\* choices[0].message.content when there is one (before the flat field),
\* else the trimmed flat content, else the empty string, and it raises for
\* no shape of the response.
C21_ResponseParsing ==
    Parsed =>
        LET nested == NestedContent(compIn.reply.json)
            flat == FlatContent(compIn.reply.json)
        IN  /\ compOut.result.kind = "ok"
            /\ IsText(nested) => compOut.result = Returned(Str(TrimChars(nested.s)))
            /\ (nested.t = "undefined" /\ IsText(flat)) =>
                    compOut.result = Returned(Str(TrimChars(flat.s)))
            /\ (nested.t = "undefined" /\ flat.t = "undefined") =>
                    compOut.result = Returned(Str(<<>>))


\* the provider name fragments complete knows
ProviderFragments == { Anthropic, OpenAi, Featherless, OpenRouter, Atlas }

\* C22: complete sends one request per call; its body is the chat-style
\* {model, messages, max_tokens, temperature} exactly when the completion
\* URL contains a known provider name fragment, and the flat
\* {prompt, temperature, n_predict} for every other URL.
C22_BodyShape ==
    (compOut # None /\ compOut.sent # <<>>) =>
        /\ Len(compOut.sent) = 1
        /\ LET body == compOut.sent[1].body
           IN  IF \E frag \in ProviderFragments : Includes(compIn.url, frag)
               THEN /\ DOMAIN body = { "model", "messages", "max_tokens", "temperature" }
                    /\ body.messages =
                         Arr(<< Obj([ role |-> Str("user"), content |-> compIn.prompt ]) >>)
               ELSE /\ DOMAIN body = { "prompt", "temperature", "n_predict" }
                    /\ body.prompt = compIn.prompt


\* ---- embed
\* an array all of whose elements are numbers
NumericArray(v) == v.t = "arr" /\ \A k \in 1..Len(v.a) : v.a[k].t = "num"

\* C23: embed sends one request per call and never a second; a non-2xx
\* status makes it fail with "Embedding request failed" carrying the status
\* and the body; a 2xx response whose data[0].embedding is not an array of
\* numbers makes it fail with the malformed-response error; in both cases
\* no vector is returned.
C23_EmbedFailures ==
    (embOut # None /\ embOut.result # None) =>
        /\ Len(embOut.sent) = 1
        /\ ~embIn.reply.ok =>
              embOut.result = Threw([ msg |-> "Embedding request failed",
                                      status |-> embIn.reply.status,
                                      text |-> embIn.reply.text ])
        /\ ( /\ embIn.reply.ok
             /\ embIn.reply.parses
             /\ ~NumericArray(OptProp(First(OptProp(embIn.reply.json, "data")),
                                      "embedding")) )
           => embOut.result = Threw("Embedding output malformed or missing")


\* ---- chunk store
\* a line that is not a chunk record: it does not parse, or it parses to
\* something without an embedding
InvalidLine(line) == ParseFails(line) \/ "embedding" \notin DOMAIN line

HasInvalidLine ==
    \E k \in 1..Len(store) :
        \E n \in 1..Len(Lines(store[k])) : InvalidLine(Lines(store[k])[n])

\* C24: when a line of the topic's chunk store is not a valid record, search
\* fails for that call: no embedding request is issued and what search
\* settles with is an error, never a result.
C24_CorruptLineFails ==
    (call.op = "search" /\ HasInvalidLine) =>
        /\ embedCalls = 0
        /\ searchOut # None => searchOut.kind = "error"


\* ---- ranking
\* two scores that are numbers and equal
Tie(x, y) ==
    /\ ~IsNaNScore(x.score)
    /\ ~IsNaNScore(y.score)
    /\ x.score.num * y.score.den = y.score.num * x.score.den

In(x, w) == \E k \in 1..Len(w) : w[k] = x

Pos(x, w) == CHOOSE k \in 1..Len(w) : w[k] = x

\* search has ranked and cut the loaded chunks
Ranked == pc = "searchDone" /\ searchOut.kind = "ok" /\ qVec # <<>>

C26_FailedIngestWritesNothing ==
    [][ /\ (ing.pc = "embedding" /\ ingOut'.kind = "error") =>
                /\ ing' = NoIngest
                /\ written' = written
                /\ store' = store
                /\ names' = names
        /\ ing.pc \in {"reading", "embedding"} =>
                /\ written' = written
                /\ store' = store
      ]_vars

\* C26 witness: a document was ingested, its file is in the store, and the
\* second ingest has failed on its embedding request.
C26_Witness ==
    /\ ing = NoIngest
    /\ ingOut.kind = "error"
    /\ ingests = 2
    /\ \E d \in DocPaths :
            /\ latest[d].done
            /\ Len(latest[d].recs) > 0
            /\ written[OutPath(d)] = File(latest[d].recs)


\* C27: a search that runs after successful ingests, one of a document
\* without a non-empty body line included, does not fail on the chunk
\* store: whatever it settles with is not the error of a line that does not
\* parse.
C27_SearchAfterIngest ==
    (call.op = "search" /\ searchOut.kind = "error") => searchOut.err # "SyntaxError"


\* C28: ingest ends after finitely many embedding requests for every chunk
\* size the engine takes, 0 and the negative ones included: a call issues at
\* most one embedding request for each non-empty line of its document.
C28_IngestTerminates ==
    ing.embeds <= Len(ing.lines)


\* what a call of updateConfig with the update u is to leave of the
\* configuration c
Updated(c, u) ==
    [ top |-> Spread(c.top, u.top),
      params |-> IF u.params.given THEN Spread(c.params, u.params.v) ELSE c.params ]

\* C29: updateConfig changes what its update names and nothing else, each
\* field of completionParams counted on its own, and no assignment to the
\* object getConfig returned, or to its completionParams, changes the
\* engine's configuration.
C29_ConfigIsolation ==
    [][ cfgCall'.n # cfgCall.n =>
            /\ cfgCall'.op = "updateConfig" =>
                    EngineConfig' = Updated(EngineConfig, cfgCall'.u)
            /\ cfgCall'.op \in {"getConfig", "mutate"} =>
                    EngineConfig' = EngineConfig
      ]_vars


\* C30: whatever the order of create, open and close on the instances of
\* one process, an instance reports opened only while the native connection
\* is live, a set, get, list or poll that passed checkOpen finds the native
\* store mapped, and no instance calls the native close more than once.
C30_OpenedMeansLive ==
    /\ \A i \in Instances : isOpen[i] => nativeLive
    /\ lastNative.op \in DataOps => lastNative.live
    /\ \A i \in Instances : nativeCloses[i] <= 1

====
